---- MODULE Spec2Model ----
(***************************************************************************)
(* State-machine model of the duonest chat backend: the in-memory presence *)
(* registry (PresenceService), the socket.io event router (index.ts), the  *)
(* message store (MessageService over the messages table) and the          *)
(* live-typing throttle.                                                   *)
(*                                                                         *)
(* A handler that awaits the store is split at its await: the part before  *)
(* the await is one action, the store call together with the code that     *)
(* runs when it resolves is another, so other handlers interleave between. *)
(* `emitted` holds the outbound socket.io events of the latest step, each   *)
(* with the set of connections that receive it; `relayed` keeps every      *)
(* chat-message and user-live-typing event relayed to a room so far, and   *)
(* `notified` the receipt transitions (message id, "delivered" or "seen")  *)
(* that a sender-directed event has carried to a connection so far, in the *)
(* specification that keeps this record.                                   *)
(***************************************************************************)
EXTENDS Integers, Sequences, FiniteSets, TLC

\* ------------------------------------------------------------------ bounds
MaxConns == 2          \* socket ids 1..MaxConns; each connects at most once
MaxMsgs == 1           \* rows the messages table may receive
MaxTicks == 1          \* clock steps of TickMs each
TickMs == 100          \* granularity of the clock, in ms
StartTime == 1000      \* Date.now() when the process starts, in ms
MaxTyping == 2         \* live-typing handlers of one socket suspended at once
MaxSending == 2        \* chat-message handlers of one socket suspended at once
MaxLogs == 2           \* typing-session-end events handled
MaxStarts == 2         \* starts of the server

\* ------------------------------------------------------- program constants
throttleMs == 100      \* LIVE_TYPING_CONFIG.throttleMs default
maxLength == 1000      \* LIVE_TYPING_CONFIG.maxLength default
autoDeliverMs == 100   \* delay of the auto-delivery setTimeout
enabled == TRUE        \* LIVE_TYPING_CONFIG.enabled default
listLimit == 10        \* LIMIT of the recent-chats listing

\* JS null / undefined for string-typed values, "no socket", SQL NULL timestamp
Null == "null"
NoSocket == 0
NoTime == 0

Conns == 1..MaxConns
Users == {"u1", "u2", "u3"}
RoomIds == {"r1", "r2"}
MsgIds == 1..MaxMsgs
MaxTime == StartTime + MaxTicks * TickMs

VARIABLES
    connState,            \* socket id -> "new" | "connected" | "disconnected"
    activeUsers,          \* userId -> socketId (NoSocket: no entry)
    userSockets,          \* socketId -> userId (Null: no entry)
    sockUserId,           \* socket.userId
    sockRoomId,           \* socket.roomId
    joined,               \* socket id -> socket.io rooms the socket is subscribed to
    messages,             \* messages table: id -> row, for the ids that have one
    nextId,               \* next value of the messages id sequence
    timers,               \* pending auto-delivery setTimeout callbacks
    throttledLiveTyping,  \* per connection: throttle key -> last accepted Date.now()
    pending,              \* handlers suspended at an await
    emitted,              \* outbound events of the latest step
    relayed,              \* chat-message / user-live-typing events relayed so far
    now,                  \* Date.now() / NOW()
    notified,             \* receipt transitions told to a sender's connection, where recorded
    live_typing_logs,     \* live_typing_logs table: its rows in insertion order
    recent_chats,         \* recent_chats table: its rows
    couple_rooms,         \* couple_rooms table: room_id -> row, for the rooms that have one
    users,                \* users table: id -> row
    migrations,           \* migrations table: the names on record
    applied,              \* the migrations whose statements have run, in the order they ran
    migrationRun,         \* runMigrations: index of the file at hand and the query awaited
    starts                \* starts of the server so far

vars == <<connState, activeUsers, userSockets, sockUserId, sockRoomId, joined,
          messages, nextId, timers, throttledLiveTyping, pending, emitted,
          relayed, now, notified, live_typing_logs, recent_chats, couple_rooms,
          users, migrations, applied, migrationRun, starts>>

presenceVars == <<activeUsers, userSockets>>
socketVars == <<connState, sockUserId, sockRoomId, joined>>
storeVars == <<messages, nextId>>
roomTables == <<couple_rooms, users>>
migrationVars == <<migrations, applied, migrationRun, starts>>
tables == <<live_typing_logs, recent_chats, roomTables, migrationVars>>

\* --------------------------------------------------------- PresenceService
\* A variant of the registration that keeps the entries a user or a socket
\* already has.
setUserOnlineKeepFirst(au, us, userId, socketId) ==
    [activeUsers |-> IF au[userId] = NoSocket THEN [au EXCEPT ![userId] = socketId] ELSE au,
     userSockets |-> IF us[socketId] = Null THEN [us EXCEPT ![socketId] = userId] ELSE us]

\* The two maps after setUserOnline(userId, socketId).
setUserOnline(au, us, userId, socketId) ==
    [activeUsers |-> [au EXCEPT ![userId] = socketId],
     userSockets |-> [us EXCEPT ![socketId] = userId]]

\* The two maps after setUserOffline(socketId), and its return value.
setUserOffline(au, us, socketId) ==
    LET userId == us[socketId] IN
    IF userId # Null
    THEN [activeUsers |-> [au EXCEPT ![userId] = NoSocket],
          userSockets |-> [us EXCEPT ![socketId] = Null],
          ret |-> userId]
    ELSE [activeUsers |-> au, userSockets |-> us, ret |-> Null]

getUserBySocketId(socketId) == userSockets[socketId]
\* A variant of the lookup that falls back to socket 2 for a user with no entry.
getSocketOrFallback(userId) ==
    IF activeUsers[userId] # NoSocket THEN activeUsers[userId] ELSE 2

getSocketByUserId(userId) == activeUsers[userId]
isUserOnline(userId) == activeUsers[userId] # NoSocket

\* ------------------------------------------------------ socket.io helpers
Connected == {c \in Conns : connState[c] = "connected"}

\* socket.to(roomId): the sockets subscribed to roomId, the sender excepted.
RoomPeers(c, roomId) == {d \in Connected \ {c} : roomId \in joined[d]}

\* socket.broadcast: every connected socket but the sender.
Others(c) == Connected \ {c}

\* A variant of io.to(socketId) that reaches nobody.
OwnNobody(socketId) == {}

\* io.to(socketId): the socket's own room, empty once it has disconnected.
Own(socketId) == {d \in Connected : d = socketId}

\* One outbound event: its name, the sockets that receive it, and the payload
\* fields the router sets (absent ones Null / 0 / {}). For a relayed typing
\* update, `from` is the socket whose handler relayed it and `arrived` the time
\* at which that handler was entered. delivered_at, seen_at and
\* seen_by_user_id are the receipt fields of a chat-message or message-sent
\* payload.
Event(ev, to, userId, roomId, messageId, at) ==
    [ev |-> ev, to |-> to, userId |-> userId, roomId |-> roomId,
     messageId |-> messageId, at |-> at, status |-> Null, online |-> {},
     from |-> NoSocket, arrived |-> NoTime,
     delivered_at |-> NoTime, seen_at |-> NoTime, seen_by_user_id |-> Null,
     rows |-> {}]

\* One handler suspended at an await, with the values its closure holds.
\* `room` is the couple_rooms row a RoomService call has read.
NoRoom == [user1_id |-> Null, user2_id |-> Null, is_active |-> FALSE]

Cont(kind, c, userId, roomId, messageId, at) ==
    [kind |-> kind, conn |-> c, userId |-> userId, roomId |-> roomId,
     messageId |-> messageId, at |-> at, len |-> 0, tempId |-> 0, room |-> NoRoom]

Keys == RoomIds \X Users

\* The process after start, before any connection, with the tables other
\* than couple_rooms and users empty.
InitProcess ==
    /\ connState = [c \in Conns |-> "new"]
    /\ activeUsers = [u \in Users |-> NoSocket]
    /\ userSockets = [c \in Conns |-> Null]
    /\ sockUserId = [c \in Conns |-> Null]
    /\ sockRoomId = [c \in Conns |-> Null]
    /\ joined = [c \in Conns |-> {}]
    /\ messages = [i \in {} |-> Null]
    /\ nextId = 1
    /\ timers = {}
    /\ throttledLiveTyping = [c \in Conns |-> [k \in Keys |-> NoTime]]
    /\ pending = {}
    /\ emitted = {}
    /\ relayed = {}
    /\ now = StartTime
    /\ notified = {}
    /\ live_typing_logs = <<>>
    /\ recent_chats = {}
    /\ migrations = {}
    /\ applied = <<>>
    /\ migrationRun = [at |-> 0, phase |-> "idle"]
    /\ starts = 0

\* couple_rooms: r1 exists, active, with members u1 and u2; r2 is not a row of
\* the table. users: every id of Users is a row; current_room_id of the two
\* members is r1.
Init ==
    /\ InitProcess
    /\ couple_rooms = [r \in {"r1"} |->
                         [user1_id |-> "u1", user2_id |-> "u2", is_active |-> TRUE]]
    /\ users = [u \in Users |->
                  [current_room_id |-> IF u \in {"u1", "u2"} THEN "r1" ELSE Null]]

\* The tables as createRoom("u1") leaves them: r1 is active with u1 in its
\* first slot and the second slot free; only u1's row points to it.
InitRoomService ==
    /\ InitProcess
    /\ couple_rooms = [r \in {"r1"} |->
                         [user1_id |-> "u1", user2_id |-> Null, is_active |-> TRUE]]
    /\ users = [u \in Users |-> [current_room_id |-> IF u = "u1" THEN "r1" ELSE Null]]

\* A handler reaches an await: its continuation k joins the suspended ones.
\* A socket has at most MaxTyping live-typing handlers suspended at a time, no
\* two of them alike, and beside them either at most MaxSending chat-message
\* handlers, no two alike, or one handler of another event.
TypingOf(c) == {p \in pending : p.conn = c /\ p.kind = "live-typing"}

SendingOf(c) == {p \in pending : p.conn = c /\ p.kind = "chat-message"}

Suspend(k) ==
    /\ k \notin pending
    /\ CASE k.kind = "live-typing" ->
               Cardinality(TypingOf(k.conn)) < MaxTyping
         [] k.kind = "chat-message" ->
               /\ Cardinality(SendingOf(k.conn)) < MaxSending
               /\ \A p \in pending :
                     p.conn = k.conn => p.kind \in {"live-typing", "chat-message"}
         [] OTHER ->
               \A p \in pending : p.conn = k.conn => p.kind = "live-typing"
    /\ pending' = pending \cup {k}

\* io.on("connection"): a new socket, not identified, in no room.
Connect(c) ==
    /\ connState[c] = "new"
    /\ connState' = [connState EXCEPT ![c] = "connected"]
    /\ emitted' = {}
    /\ UNCHANGED <<presenceVars, sockUserId, sockRoomId, joined, storeVars, timers,
                   throttledLiveTyping, pending, relayed, now, notified, tables>>

\* socket.on("identify-user"): registers unconditionally and broadcasts user-online.
IdentifyUser(c, userId) ==
    /\ connState[c] = "connected"
    /\ LET r == setUserOnline(activeUsers, userSockets, userId, c) IN
        /\ activeUsers' = r.activeUsers
        /\ userSockets' = r.userSockets
    /\ sockUserId' = [sockUserId EXCEPT ![c] = userId]
    /\ emitted' = {Event("user-online", Others(c), userId, Null, 0, 0)}
    /\ UNCHANGED <<connState, sockRoomId, joined, storeVars, timers,
                   throttledLiveTyping, pending, relayed, now, notified, tables>>

\* The registration shared by user-online, register-user, join-room and
\* chat-message: only a socket with no userId yet registers.
AutoRegister(c, userId) ==
    IF userId # Null /\ sockUserId[c] = Null
    THEN LET r == setUserOnline(activeUsers, userSockets, userId, c) IN
         /\ activeUsers' = r.activeUsers
         /\ userSockets' = r.userSockets
         /\ sockUserId' = [sockUserId EXCEPT ![c] = userId]
    ELSE UNCHANGED <<activeUsers, userSockets, sockUserId>>

\* socket.on("user-online"): registers a socket that has no userId yet.
UserOnline(c, userId) ==
    /\ connState[c] = "connected"
    /\ AutoRegister(c, userId)
    /\ emitted' = {}
    /\ UNCHANGED <<connState, sockRoomId, joined, storeVars, timers,
                   throttledLiveTyping, pending, relayed, now, notified, tables>>

\* socket.on("register-user"): as user-online, and confirms to the caller;
\* nothing happens without a userId.
RegisterUser(c, userId) ==
    /\ connState[c] = "connected"
    /\ AutoRegister(c, userId)
    /\ emitted' = IF userId = Null
                  THEN {}
                  ELSE {Event("user-registered", {c}, userId, Null, 0, 0)}
    /\ UNCHANGED <<connState, sockRoomId, joined, storeVars, timers,
                   throttledLiveTyping, pending, relayed, now, notified, tables>>

\* socket.on("join-room") up to its await. The payload is a room id (the user
\* is then socket.userId) or an object {roomId, userId}.
JoinRoom(c, roomId, asObject, dataUserId) ==
    /\ connState[c] = "connected"
    /\ LET userId == IF asObject THEN dataUserId ELSE sockUserId[c] IN
        /\ AutoRegister(c, userId)
        /\ joined' = [joined EXCEPT ![c] = @ \cup {roomId}]
        /\ sockRoomId' = [sockRoomId EXCEPT ![c] = roomId]
        /\ emitted' = {Event("user-joined", RoomPeers(c, roomId), userId, roomId, 0, 0)}
        /\ Suspend(Cont("join-room", c, Null, roomId, 0, 0))
    /\ UNCHANGED <<connState, storeVars, timers, throttledLiveTyping, relayed, now,
                   notified, tables>>

\* PresenceService.getUsersInRoom: the member ids of the room, none if no row.
getUsersInRoom(roomId) ==
    IF roomId \in DOMAIN couple_rooms
    THEN {couple_rooms[roomId].user1_id, couple_rooms[roomId].user2_id} \ {Null}
    ELSE {}

\* join-room after getUsersInRoom resolves: the online members, to the joiner.
JoinRoomStatus(p) ==
    /\ p \in pending /\ p.kind = "join-room"
    /\ pending' = pending \ {p}
    /\ emitted' =
           {[Event("room-users-status", Own(p.conn), Null, p.roomId, 0, 0)
               EXCEPT !.online = {u \in getUsersInRoom(p.roomId) : isUserOnline(u)}]}
    /\ UNCHANGED <<presenceVars, socketVars, storeVars, timers,
                   throttledLiveTyping, relayed, now, notified, tables>>

\* socket.on("leave-room")
LeaveRoom(c, roomId, asObject, dataUserId) ==
    /\ connState[c] = "connected"
    /\ LET userId == IF asObject THEN dataUserId ELSE sockUserId[c] IN
        /\ joined' = [joined EXCEPT ![c] = @ \ {roomId}]
        /\ sockRoomId' = [sockRoomId EXCEPT ![c] = IF @ = roomId THEN Null ELSE @]
        /\ emitted' = {Event("user-left", RoomPeers(c, roomId), userId, roomId, 0, 0)}
    /\ UNCHANGED <<connState, presenceVars, sockUserId, storeVars, timers,
                   throttledLiveTyping, pending, relayed, now, notified, tables>>

\* socket.on("disconnect"): socket.io has already removed the socket from its
\* rooms; the handler unregisters it and, if setUserOffline named a user,
\* broadcasts user-offline and cleans up live typing for socket.roomId.
Disconnect(c) ==
    /\ connState[c] = "connected"
    /\ connState' = [connState EXCEPT ![c] = "disconnected"]
    /\ joined' = [joined EXCEPT ![c] = {}]
    /\ LET r == setUserOffline(activeUsers, userSockets, c)
           typing == r.ret # Null /\ sockRoomId[c] # Null /\ enabled
       IN
        /\ activeUsers' = r.activeUsers
        /\ userSockets' = r.userSockets
        /\ emitted' =
              (IF r.ret # Null
               THEN {Event("user-offline", Others(c), r.ret, Null, 0, 0)}
               ELSE {})
              \cup (IF typing
                    THEN {[Event("user-stopped-live-typing", RoomPeers(c, sockRoomId[c]),
                                 r.ret, sockRoomId[c], 0, now) EXCEPT !.from = c]}
                    ELSE {})
        /\ throttledLiveTyping' =
              IF typing
              THEN [throttledLiveTyping EXCEPT ![c][<<sockRoomId[c], r.ret>>] = NoTime]
              ELSE throttledLiveTyping
    /\ UNCHANGED <<sockUserId, sockRoomId, storeVars, timers, pending, relayed, now,
                   notified, tables>>

\* ---------------------------------------------------------- MessageService
\* A variant of the insert whose delivered_at defaults to the time of the
\* insert.
NewRowDelivered(roomId, senderId) ==
    [room_id |-> roomId, sender_id |-> senderId,
     delivered_at |-> StartTime, seen_at |-> NoTime, seen_by_user_id |-> Null]

\* The row INSERT ... RETURNING * yields: the receipt columns are NULL.
NewRow(roomId, senderId) ==
    [room_id |-> roomId, sender_id |-> senderId,
     delivered_at |-> NoTime, seen_at |-> NoTime, seen_by_user_id |-> Null]

\* The insert violates a foreign key when the room or the sender has no row.
InsertAllowed(roomId, senderId) ==
    roomId \in DOMAIN couple_rooms /\ senderId \in DOMAIN users

\* A variant of the delivery write that puts the row back into the delivered
\* state: it sets delivered_at and resets the seen columns.
markMessageAsDeliveredOnly(msgs, messageId, t) ==
    IF messageId \in DOMAIN msgs
    THEN [msgs EXCEPT ![messageId].delivered_at = t,
                      ![messageId].seen_at = NoTime,
                      ![messageId].seen_by_user_id = Null]
    ELSE msgs

\* A variant of the delivery write that inserts a row when the id has none.
markMessageAsDeliveredUpsert(msgs, messageId, t) ==
    IF messageId \in DOMAIN msgs
    THEN [msgs EXCEPT ![messageId].delivered_at = t]
    ELSE (messageId :> [room_id |-> Null, sender_id |-> Null, delivered_at |-> t,
                        seen_at |-> NoTime, seen_by_user_id |-> Null]) @@ msgs

\* UPDATE messages SET delivered_at = NOW() WHERE id = $1
markMessageAsDelivered(msgs, messageId, t) ==
    IF messageId \in DOMAIN msgs
    THEN [msgs EXCEPT ![messageId].delivered_at = t]
    ELSE msgs

\* A variant of the seen write that also fills an empty delivered_at.
markMessageAsSeenAndDelivered(msgs, messageId, userId, t) ==
    IF messageId \in DOMAIN msgs
    THEN [msgs EXCEPT ![messageId].seen_at = t,
                      ![messageId].seen_by_user_id = userId,
                      ![messageId].delivered_at = IF @ = NoTime THEN t ELSE @]
    ELSE msgs

\* A variant of the seen write that records the reader and no time.
markMessageAsSeenByOnly(msgs, messageId, userId, t) ==
    IF messageId \in DOMAIN msgs
    THEN [msgs EXCEPT ![messageId].seen_by_user_id = userId]
    ELSE msgs

\* UPDATE messages SET seen_at = NOW(), seen_by_user_id = $2 WHERE id = $1
markMessageAsSeen(msgs, messageId, userId, t) ==
    IF messageId \in DOMAIN msgs
    THEN [msgs EXCEPT ![messageId].seen_at = t, ![messageId].seen_by_user_id = userId]
    ELSE msgs

\* A variant of the delete that does not look at the sender.
deleteMessageOfAnyone(msgs, messageId, userId) ==
    IF messageId \in DOMAIN msgs
    THEN [messages |-> [i \in DOMAIN msgs \ {messageId} |-> msgs[i]], ret |-> TRUE]
    ELSE [messages |-> msgs, ret |-> FALSE]

\* DELETE FROM messages WHERE id = $1 AND sender_id = $2: the table after it,
\* and whether a row was deleted.
deleteMessage(msgs, messageId, userId) ==
    IF messageId \in DOMAIN msgs /\ msgs[messageId].sender_id = userId
    THEN [messages |-> [i \in DOMAIN msgs \ {messageId} |-> msgs[i]], ret |-> TRUE]
    ELSE [messages |-> msgs, ret |-> FALSE]

\* SELECT * FROM messages WHERE id = $1: the rows found, one or none.
getMessage(msgs, messageId) ==
    {msgs[i] : i \in DOMAIN msgs \cap {messageId}}

\* The values a client sends as messageId: the numerals of the integers from
\* -1 to one past the last id, a fraction and a word.
Numerals == -1..(MaxMsgs + 1)
RawIds == {ToString(i) : i \in Numerals} \cup {"1.5", "abc"}

\* Number(messageId): whether the result is NaN, whether it is an integer, and
\* its integer part.
Number(raw) ==
    IF \E i \in Numerals : ToString(i) = raw
    THEN [nan |-> FALSE, integer |-> TRUE,
          value |-> CHOOSE i \in Numerals : ToString(i) = raw]
    ELSE IF raw = "1.5"
    THEN [nan |-> FALSE, integer |-> FALSE, value |-> 1]
    ELSE [nan |-> TRUE, integer |-> FALSE, value |-> 0]

\* A variant of the validation without the Number.isInteger test.
ValidMessageIdAnyNumber(n) == ~n.nan /\ n.value > 0

\* !(isNaN(validMessageId) || validMessageId <= 0 ||
\*   !Number.isInteger(validMessageId))
ValidMessageId(n) == ~n.nan /\ n.value > 0 /\ n.integer

\* socket.on("chat-message") up to await saveMessage: validation and the
\* registration of a socket that has no userId yet. tempId is data.tempId, the
\* client's own number for the message (0: none given).
ChatMessage(c, roomId, userId, tempId) ==
    /\ connState[c] = "connected"
    /\ IF roomId = Null \/ userId = Null
       THEN /\ emitted' = {Event("message-error", {c}, Null, Null, 0, 0)}
            /\ UNCHANGED <<presenceVars, sockUserId, pending>>
       ELSE /\ AutoRegister(c, userId)
            /\ Suspend([Cont("chat-message", c, userId, roomId, 0, 0)
                          EXCEPT !.tempId = tempId])
            /\ emitted' = {}
    /\ UNCHANGED <<connState, sockRoomId, joined, storeVars, timers,
                   throttledLiveTyping, relayed, now, notified, tables>>

\* chat-message from saveMessage on: the insert, then the broadcast to the
\* room, the auto-delivery timer and the ack; message-error if the insert
\* throws (a foreign key is violated, or the store is down: dbOk = FALSE).
\* The id sequence advances even when the foreign key check rejects the row.
ChatMessageSave(p, dbOk) ==
    /\ p \in pending /\ p.kind = "chat-message"
    /\ pending' = pending \ {p}
    /\ IF dbOk /\ InsertAllowed(p.roomId, p.userId)
       THEN LET savedMessage == NewRow(p.roomId, p.userId)
                broadcast ==
                    [Event("chat-message", RoomPeers(p.conn, p.roomId),
                           savedMessage.sender_id, p.roomId, nextId, 0)
                       EXCEPT !.status = "sent", !.delivered_at = NoTime,
                              !.seen_at = NoTime, !.seen_by_user_id = Null]
            IN
            /\ nextId <= MaxMsgs
            /\ messages' = (nextId :> savedMessage) @@ messages
            /\ nextId' = nextId + 1
            /\ timers' = timers \cup
                   {[messageId |-> nextId, sender_id |-> p.userId,
                     due |-> now + autoDeliverMs]}
            /\ emitted' =
                   {broadcast,
                    [Event("message-sent", Own(p.conn), savedMessage.sender_id,
                           p.roomId, nextId, 0)
                       EXCEPT !.status = "sent", !.delivered_at = NoTime,
                              !.seen_at = NoTime, !.seen_by_user_id = Null]}
            /\ relayed' = relayed \cup {broadcast}
       ELSE /\ IF dbOk
               THEN nextId <= MaxMsgs /\ nextId' = nextId + 1
               ELSE UNCHANGED nextId
            /\ emitted' = {Event("message-error", Own(p.conn), Null, Null, 0, 0)}
            /\ UNCHANGED <<messages, timers, relayed>>
    /\ UNCHANGED <<presenceVars, socketVars, throttledLiveTyping, now,
                   notified, tables>>

\* The sender-directed events that report the delivered transition and the
\* ones that report the seen transition.
Reports(e, transition) ==
    IF transition = "delivered"
    THEN \/ e.ev = "message-delivery-confirmed"
         \/ e.ev = "message-status-update" /\ e.status = "delivered"
    ELSE \/ e.ev \in {"message-seen", "message-read-receipt"}
         \/ e.ev = "message-status-update" /\ e.status = "seen"

\* The transitions that the events of one handler run carry to a connection.
Told(events, transition) ==
    {<<e.messageId, transition>> :
        e \in {x \in events : Reports(x, transition) /\ x.to # {}}}

\* The setTimeout callback of chat-message, run once its delay has passed:
\* marks the message delivered and tells the sender's socket on record.
\* A store error (dbOk = FALSE) is caught and logged.
AutoDeliverCallback(t, dbOk) ==
    /\ t \in timers /\ now >= t.due
    /\ timers' = timers \ {t}
    /\ IF dbOk
       THEN /\ messages' = markMessageAsDelivered(messages, t.messageId, now)
            /\ emitted' =
                 (IF getSocketByUserId(t.sender_id) # NoSocket
                  THEN {[Event("message-status-update", Own(getSocketByUserId(t.sender_id)),
                               Null, Null, t.messageId, 0) EXCEPT !.status = "delivered"]}
                  ELSE {})
       ELSE messages' = messages /\ emitted' = {}
    /\ UNCHANGED <<presenceVars, socketVars, nextId, throttledLiveTyping, pending,
                   relayed, now>>

\* The callback, in a specification that keeps no record of notifications.
AutoDeliver(t, dbOk) ==
    AutoDeliverCallback(t, dbOk) /\ UNCHANGED <<notified, tables>>

\* The callback, with the transition it told a connection of put on record.
AutoDeliverRecorded(t, dbOk) ==
    AutoDeliverCallback(t, dbOk) /\ notified' = notified \cup Told(emitted', "delivered")
        /\ UNCHANGED tables

\* socket.on("message-delivered") up to the resolution of markMessageAsDelivered.
MessageDelivered(c, messageId, dbOk) ==
    /\ connState[c] = "connected"
    /\ LET validMessageId == Number(messageId) IN
       IF ValidMessageId(validMessageId) /\ dbOk
       THEN /\ messages' = markMessageAsDelivered(messages, validMessageId.value, now)
            /\ Suspend(Cont("message-delivered", c, Null, Null,
                            validMessageId.value, 0))
       ELSE UNCHANGED <<messages, pending>>
    /\ emitted' = {}
    /\ UNCHANGED <<presenceVars, socketVars, nextId, timers, throttledLiveTyping,
                   relayed, now, notified, tables>>

\* message-delivered from getMessage on: tells the sender's socket on record.
MessageDeliveredEmit(p) ==
    /\ p \in pending /\ p.kind = "message-delivered"
    /\ pending' = pending \ {p}
    /\ emitted' =
         (IF p.messageId \in DOMAIN messages
             /\ getSocketByUserId(messages[p.messageId].sender_id) # NoSocket
          THEN {Event("message-delivery-confirmed",
                      Own(getSocketByUserId(messages[p.messageId].sender_id)),
                      Null, Null, p.messageId, 0)}
          ELSE {})
    /\ UNCHANGED <<presenceVars, socketVars, storeVars, timers, throttledLiveTyping,
                   relayed, now>>

\* The same, without and with the record of what a connection was told.
MessageDeliveredNotify(p) ==
    MessageDeliveredEmit(p) /\ UNCHANGED <<notified, tables>>

MessageDeliveredNotifyRecorded(p) ==
    MessageDeliveredEmit(p) /\ notified' = notified \cup Told(emitted', "delivered")
        /\ UNCHANGED tables

\* socket.on("message-seen") up to the resolution of markMessageAsSeen.
MessageSeen(c, messageId, userId, dbOk) ==
    /\ connState[c] = "connected"
    /\ LET validMessageId == Number(messageId) IN
       IF ValidMessageId(validMessageId) /\ userId # Null /\ dbOk
       THEN /\ messages' = markMessageAsSeen(messages, validMessageId.value, userId, now)
            /\ Suspend(Cont("message-seen", c, userId, Null,
                            validMessageId.value, 0))
       ELSE UNCHANGED <<messages, pending>>
    /\ emitted' = {}
    /\ UNCHANGED <<presenceVars, socketVars, nextId, timers, throttledLiveTyping,
                   relayed, now, notified, tables>>

\* message-seen from getMessage on: message-seen, message-status-update and
\* message-read-receipt to the sender's socket on record, and
\* message-seen-confirmed to the room.
MessageSeenEmit(p) ==
    /\ p \in pending /\ p.kind = "message-seen"
    /\ pending' = pending \ {p}
    /\ emitted' =
         (IF p.messageId \in DOMAIN messages
          THEN LET m == messages[p.messageId]
                   s == getSocketByUserId(m.sender_id)
               IN (IF s # NoSocket
                   THEN {Event("message-seen", Own(s), p.userId, m.room_id,
                               p.messageId, 0),
                         [Event("message-status-update", Own(s), p.userId, Null,
                                p.messageId, 0) EXCEPT !.status = "seen"],
                         Event("message-read-receipt", Own(s), p.userId, Null,
                               p.messageId, 0)}
                   ELSE {})
                  \cup {Event("message-seen-confirmed", RoomPeers(p.conn, m.room_id),
                              p.userId, Null, p.messageId, 0)}
          ELSE {})
    /\ UNCHANGED <<presenceVars, socketVars, storeVars, timers, throttledLiveTyping,
                   relayed, now>>

\* The same, without and with the record of what a connection was told.
MessageSeenNotify(p) ==
    MessageSeenEmit(p) /\ UNCHANGED <<notified, tables>>

MessageSeenNotifyRecorded(p) ==
    MessageSeenEmit(p) /\ notified' = notified \cup Told(emitted', "seen")
        /\ UNCHANGED tables

\* RoomService.getUserCurrentRoom: the active room the user's row points to.
getUserCurrentRoom(userId) ==
    IF /\ userId \in DOMAIN users
       /\ users[userId].current_room_id \in DOMAIN couple_rooms
       /\ couple_rooms[users[userId].current_room_id].is_active
    THEN users[userId].current_room_id
    ELSE Null

\* POST /u/:userId/mark-messages-seen/:roomId with messageIds = [messageId]:
\* 403 unless the user's current room is roomId, else markMessageAsSeen.
HttpMarkSeen(userId, roomId, messageId) ==
    /\ getUserCurrentRoom(userId) = roomId
    /\ messages' = markMessageAsSeen(messages, messageId, userId, now)
    /\ emitted' = {}
    /\ UNCHANGED <<presenceVars, socketVars, nextId, timers, throttledLiveTyping,
                   pending, relayed, now, notified, tables>>

\* DELETE /u/:userId/message/:messageId: deleteMessage, answered with 200, with
\* 404 when no row was deleted and with 500 when the store throws (dbOk =
\* FALSE). The answer is the one outbound event of the step; it goes to the
\* HTTP client, so to no socket.
DeleteMessageRoute(userId, messageId, dbOk) ==
    /\ LET r == deleteMessage(messages, messageId, userId) IN
        /\ messages' = IF dbOk THEN r.messages ELSE messages
        /\ emitted' =
              {[Event("delete-response", {}, userId, Null, messageId, 0)
                  EXCEPT !.status = IF ~dbOk THEN "500"
                                    ELSE IF r.ret THEN "200" ELSE "404"]}
    /\ UNCHANGED <<presenceVars, socketVars, nextId, timers, throttledLiveTyping,
                   pending, relayed, now, notified, tables>>

\* Time passes.
Tick ==
    /\ now + TickMs <= MaxTime
    /\ now' = now + TickMs
    /\ emitted' = {}
    /\ UNCHANGED <<presenceVars, socketVars, storeVars, timers, throttledLiveTyping,
                   pending, relayed, notified, tables>>

\* ------------------------------------------------------------- live typing
\* A variant of the guard that looks at the room's first member only.
validateFirstSlotOnly(userId, roomId, dbOk) ==
    /\ dbOk
    /\ roomId \in DOMAIN couple_rooms
    /\ couple_rooms[roomId].user1_id = userId

\* validateUserRoomAccess: the room exists and the user is one of its two
\* members; false when the room lookup throws (dbOk = FALSE).
validateUserRoomAccess(userId, roomId, dbOk) ==
    /\ dbOk
    /\ roomId \in DOMAIN couple_rooms
    /\ (couple_rooms[roomId].user1_id = userId \/ couple_rooms[roomId].user2_id = userId)

\* A variant of the length check that lets content of every length through.
ContentNeverTooLong(len) == FALSE

\* content.length > LIVE_TYPING_CONFIG.maxLength
ContentTooLong(len) == len > maxLength

\* A variant of the throttle write that leaves the map as it is.
throttleSetDeferred(map, c, key, t) == map

\* throttledLiveTyping.set(key, now) on the map of connection c.
throttleSet(map, c, key, t) == [map EXCEPT ![c][key] = t]

\* socket.on("live-typing") up to await validateUserRoomAccess; len is
\* content.length.
LiveTyping(c, roomId, userId, len) ==
    /\ connState[c] = "connected"
    /\ enabled
    /\ Suspend([Cont("live-typing", c, userId, roomId, 0, now) EXCEPT !.len = len])
    /\ emitted' = {}
    /\ UNCHANGED <<presenceVars, socketVars, storeVars, timers, throttledLiveTyping,
                   relayed, now, notified, tables>>

\* live-typing once the access check has resolved: the access and length
\* checks, each answered with an error event (its message in `status`), then
\* the throttle on this socket's map against Date.now(), then the relay to
\* the room.
LiveTypingCheck(p, dbOk) ==
    /\ p \in pending /\ p.kind = "live-typing"
    /\ pending' = pending \ {p}
    /\ LET key == <<p.roomId, p.userId>>
           lastUpdate == throttledLiveTyping[p.conn][key]
           relay == [Event("user-live-typing", RoomPeers(p.conn, p.roomId), p.userId,
                           p.roomId, 0, now)
                       EXCEPT !.from = p.conn, !.arrived = p.at]
       IN
       IF ~validateUserRoomAccess(p.userId, p.roomId, dbOk) \/ ContentTooLong(p.len)
       THEN /\ emitted' =
                   {[Event("error", Own(p.conn), Null, Null, 0, 0)
                       EXCEPT !.status =
                           IF ~validateUserRoomAccess(p.userId, p.roomId, dbOk)
                           THEN "Access denied to room"
                           ELSE "Content too long for live typing"]}
            /\ UNCHANGED <<throttledLiveTyping, relayed>>
       ELSE IF now - lastUpdate < throttleMs
       THEN emitted' = {} /\ UNCHANGED <<throttledLiveTyping, relayed>>
       ELSE /\ throttledLiveTyping' = throttleSet(throttledLiveTyping, p.conn, key, now)
            /\ emitted' = {relay}
            /\ relayed' = relayed \cup {relay}
    /\ UNCHANGED <<presenceVars, socketVars, storeVars, timers, now, notified, tables>>

\* socket.on("stop-live-typing") up to await validateUserRoomAccess.
StopLiveTyping(c, roomId, userId) ==
    /\ connState[c] = "connected"
    /\ enabled
    /\ Suspend(Cont("stop-live-typing", c, userId, roomId, 0, 0))
    /\ emitted' = {}
    /\ UNCHANGED <<presenceVars, socketVars, storeVars, timers, throttledLiveTyping,
                   relayed, now, notified, tables>>

\* stop-live-typing once the access check has resolved: the stop signal to
\* the room and the removal of the key from this socket's throttle map.
StopLiveTypingCheck(p, dbOk) ==
    /\ p \in pending /\ p.kind = "stop-live-typing"
    /\ pending' = pending \ {p}
    /\ IF validateUserRoomAccess(p.userId, p.roomId, dbOk)
       THEN /\ emitted' =
                   {[Event("user-stopped-live-typing", RoomPeers(p.conn, p.roomId),
                           p.userId, p.roomId, 0, now) EXCEPT !.from = p.conn]}
            /\ throttledLiveTyping' =
                   [throttledLiveTyping EXCEPT ![p.conn][<<p.roomId, p.userId>>] = NoTime]
       ELSE emitted' = {} /\ UNCHANGED throttledLiveTyping
    /\ UNCHANGED <<presenceVars, socketVars, storeVars, timers, relayed, now,
                   notified, tables>>

\* ------------------------------------------------------ typing analytics
SessionKinds == {"typing-session-end", "typing-session-log"}

\* A variant of the analytics write that stores the row twice.
insertTypingLogTwice(logs, roomId, userId, finalLength) ==
    logs \o << [room_id |-> roomId, user_id |-> userId, content_length |-> finalLength],
              [room_id |-> roomId, user_id |-> userId, content_length |-> finalLength] >>

\* INSERT INTO live_typing_logs (room_id, user_id, content_length, ...).
insertTypingLog(logs, roomId, userId, finalLength) ==
    Append(logs, [room_id |-> roomId, user_id |-> userId, content_length |-> finalLength])

\* socket.on("typing-session-end") up to await validateUserRoomAccess: the
\* handler returns at once when roomId or userId is missing.
TypingSessionEnd(c, roomId, userId, finalLength) ==
    /\ connState[c] = "connected"
    /\ enabled
    /\ Len(live_typing_logs) + Cardinality({p \in pending : p.kind \in SessionKinds}) < MaxLogs
    /\ IF roomId = Null \/ userId = Null
       THEN UNCHANGED pending
       ELSE Suspend([Cont("typing-session-end", c, userId, roomId, 0, 0)
                       EXCEPT !.len = finalLength])
    /\ emitted' = {}
    /\ UNCHANGED <<presenceVars, socketVars, storeVars, timers, throttledLiveTyping,
                   relayed, now, notified, tables>>

\* typing-session-end once the access check has resolved: a caller without
\* access is dropped without an answer, the others go on to the INSERT.
TypingSessionEndCheck(p, dbOk) ==
    /\ p \in pending /\ p.kind = "typing-session-end"
    /\ pending' = IF validateUserRoomAccess(p.userId, p.roomId, dbOk)
                  THEN (pending \ {p}) \cup {[p EXCEPT !.kind = "typing-session-log"]}
                  ELSE pending \ {p}
    /\ emitted' = {}
    /\ UNCHANGED <<presenceVars, socketVars, storeVars, timers, throttledLiveTyping,
                   relayed, now, notified, tables>>

\* typing-session-end once the INSERT has resolved: a rejected INSERT is
\* caught and logged to the console only.
TypingSessionEndLog(p, dbOk) ==
    /\ p \in pending /\ p.kind = "typing-session-log"
    /\ pending' = pending \ {p}
    /\ live_typing_logs' = IF dbOk
                           THEN insertTypingLog(live_typing_logs, p.roomId, p.userId, p.len)
                           ELSE live_typing_logs
    /\ emitted' = {}
    /\ UNCHANGED <<presenceVars, socketVars, storeVars, timers, throttledLiveTyping,
                   relayed, now, notified, recent_chats, roomTables,
                   migrationVars>>

\* ----------------------------------------------------------- recent chats
\* The rows of the pair (userId, roomId); unique_user_room allows one.
RecentChatRows(table, userId, roomId) ==
    {row \in table : row.user_id = userId /\ row.room_id = roomId}

\* A variant of the POST statement without its ON CONFLICT clause.
insertRecentChat(table, userId, roomId, roomName, t) ==
    table \cup {[user_id |-> userId, room_id |-> roomId, room_name |-> roomName,
                 last_visited |-> t, participant_count |-> 0, is_active |-> TRUE]}

\* INSERT INTO recent_chats ... ON CONFLICT (user_id, room_id) DO UPDATE SET
\* room_name, last_visited, is_active; participant_count has the default 0.
upsertRecentChat(table, userId, roomId, roomName, t) ==
    IF RecentChatRows(table, userId, roomId) # {}
    THEN {IF row \in RecentChatRows(table, userId, roomId)
          THEN [row EXCEPT !.room_name = roomName, !.last_visited = t,
                           !.is_active = TRUE]
          ELSE row : row \in table}
    ELSE table \cup {[user_id |-> userId, room_id |-> roomId, room_name |-> roomName,
                      last_visited |-> t, participant_count |-> 0, is_active |-> TRUE]}

\* UPDATE recent_chats SET participant_count, is_active WHERE user_id AND
\* room_id: the table afterwards and rowCount.
updateRecentChat(table, userId, roomId, participantCount, isActive) ==
    [table |-> {IF row \in RecentChatRows(table, userId, roomId)
                THEN [row EXCEPT !.participant_count = participantCount,
                                 !.is_active = isActive]
                ELSE row : row \in table},
     rowCount |-> Cardinality(RecentChatRows(table, userId, roomId))]

\* A variant of the DELETE statement that removes every row of the user.
deleteRecentChatsOfUser(table, userId, roomId) ==
    [table |-> {row \in table : row.user_id # userId},
     rowCount |-> Cardinality({row \in table : row.user_id = userId})]

\* DELETE FROM recent_chats WHERE user_id AND room_id: the table afterwards
\* and rowCount.
deleteRecentChat(table, userId, roomId) ==
    [table |-> table \ RecentChatRows(table, userId, roomId),
     rowCount |-> Cardinality(RecentChatRows(table, userId, roomId))]

\* One row in the shape the listing returns it.
RecentChat(row) ==
    [roomId |-> row.room_id, roomName |-> row.room_name,
     lastVisited |-> row.last_visited, participantCount |-> row.participant_count,
     isActive |-> row.is_active]

\* SELECT ... WHERE user_id = $1 ORDER BY last_visited DESC LIMIT 10: the
\* results the statement may return, as sets of entries; rows with equal
\* last_visited at the cut may fall on either side of it.
getRecentChats(table, userId) ==
    LET own == {row \in table : row.user_id = userId} IN
    IF Cardinality(own) <= listLimit
    THEN {{RecentChat(row) : row \in own}}
    ELSE {{RecentChat(row) : row \in S} :
            S \in {T \in SUBSET own :
                     /\ Cardinality(T) = listLimit
                     /\ \A a \in T, b \in own \ T : a.last_visited >= b.last_visited}}

\* The answer of a recent-chats route to its HTTP client: to no socket.
RecentChatResponse(route, userId, roomId, status) ==
    [Event(route, {}, userId, roomId, 0, 0) EXCEPT !.status = status]

\* GET /recent-chats/:userId on an existing table: the listing, or 500 when
\* the store throws.
GetRecentChats(userId, dbOk) ==
    /\ \E result \in getRecentChats(recent_chats, userId) :
          emitted' = {[RecentChatResponse("GET /recent-chats", userId, Null,
                                          IF dbOk THEN "200" ELSE "500")
                         EXCEPT !.rows = IF dbOk THEN result ELSE {}]}
    /\ UNCHANGED <<presenceVars, socketVars, storeVars, timers, throttledLiveTyping,
                   pending, relayed, now, notified, tables>>

\* POST /recent-chats: 400 without userId or roomId, else the upsert with
\* the default name for a missing roomName; 500 when the store throws.
PostRecentChat(userId, roomId, roomName, dbOk) ==
    /\ LET status == IF userId = Null \/ roomId = Null THEN "400"
                     ELSE IF dbOk THEN "200" ELSE "500"
           name == IF roomName = Null THEN "Room " \o roomId ELSE roomName
       IN
       /\ recent_chats' = IF status = "200"
                          THEN upsertRecentChat(recent_chats, userId, roomId, name, now)
                          ELSE recent_chats
       /\ emitted' = {RecentChatResponse("POST /recent-chats", userId, roomId, status)}
    /\ UNCHANGED <<presenceVars, socketVars, storeVars, timers, throttledLiveTyping,
                   pending, relayed, now, notified, live_typing_logs, roomTables,
                   migrationVars>>

\* PUT /recent-chats/:userId/:roomId: 404 when the UPDATE matched no row,
\* 500 when the store throws.
PutRecentChat(userId, roomId, participantCount, isActive, dbOk) ==
    /\ LET r == updateRecentChat(recent_chats, userId, roomId, participantCount, isActive)
           status == IF ~dbOk THEN "500" ELSE IF r.rowCount = 0 THEN "404" ELSE "200"
       IN
       /\ recent_chats' = IF dbOk THEN r.table ELSE recent_chats
       /\ emitted' = {RecentChatResponse("PUT /recent-chats", userId, roomId, status)}
    /\ UNCHANGED <<presenceVars, socketVars, storeVars, timers, throttledLiveTyping,
                   pending, relayed, now, notified, live_typing_logs, roomTables,
                   migrationVars>>

\* DELETE /recent-chats/:userId/:roomId: 404 when the DELETE matched no row,
\* 500 when the store throws.
DeleteRecentChatRoute(userId, roomId, dbOk) ==
    /\ LET r == deleteRecentChat(recent_chats, userId, roomId)
           status == IF ~dbOk THEN "500" ELSE IF r.rowCount = 0 THEN "404" ELSE "200"
       IN
       /\ recent_chats' = IF dbOk THEN r.table ELSE recent_chats
       /\ emitted' = {RecentChatResponse("DELETE /recent-chats", userId, roomId, status)}
    /\ UNCHANGED <<presenceVars, socketVars, storeVars, timers, throttledLiveTyping,
                   pending, relayed, now, notified, live_typing_logs, roomTables,
                   migrationVars>>

\* ------------------------------------------------------------ RoomService
JoinKinds == {"joinRoom", "joinRoom-member", "joinRoom-slot", "joinRoom-users"}
LeaveKinds == {"leaveRoom", "leaveRoom-room", "leaveRoom-user", "leaveRoom-update"}

\* The users in the two slots of a row of couple_rooms.
Slots(room) == {room.user1_id, room.user2_id} \ {Null}

\* The answer of a room route to its HTTP client: to no socket.
RoomResponse(route, p, status) ==
    [Event(route, {}, p.userId, p.roomId, 0, 0) EXCEPT !.status = status]

\* A RoomService call of the user starts; each user has one call in flight.
StartCall(kind, userId, roomId) ==
    /\ \A p \in pending : p.kind \in JoinKinds \cup LeaveKinds => p.userId # userId
    /\ pending' = pending \cup {Cont(kind, NoSocket, userId, roomId, 0, 0)}

\* POST /c/:roomId/join up to the first query of RoomService.joinRoom: 400
\* without a userId; createUser fails on the existing row and is caught.
JoinRoomRoute(userId, roomId) ==
    /\ IF userId = Null
       THEN /\ emitted' = {[Event("POST /c/:roomId/join", {}, Null, roomId, 0, 0)
                              EXCEPT !.status = "400"]}
            /\ UNCHANGED pending
       ELSE /\ StartCall("joinRoom", userId, roomId)
            /\ emitted' = {}
    /\ UNCHANGED <<presenceVars, socketVars, storeVars, timers, throttledLiveTyping,
                   relayed, now, notified, tables>>

\* joinRoom once SELECT * FROM couple_rooms WHERE room_id AND is_active has
\* resolved: null (answered 400) for no such room and for a full room, the
\* member and the free-slot branches otherwise; 500 when the store throws.
JoinRoomFind(p, dbOk) ==
    /\ p \in pending /\ p.kind = "joinRoom"
    /\ LET found == p.roomId \in DOMAIN couple_rooms /\ couple_rooms[p.roomId].is_active
           next == IF ~dbOk THEN "500"
                   ELSE IF ~found THEN "400"
                   ELSE IF p.userId \in Slots(couple_rooms[p.roomId])
                   THEN "joinRoom-member"
                   ELSE IF couple_rooms[p.roomId].user2_id # Null THEN "400"
                   ELSE "joinRoom-slot"
       IN
       IF next \in JoinKinds
       THEN /\ pending' = (pending \ {p}) \cup {[p EXCEPT !.kind = next]}
            /\ emitted' = {}
       ELSE /\ pending' = pending \ {p}
            /\ emitted' = {RoomResponse("POST /c/:roomId/join", p, next)}
    /\ UNCHANGED <<presenceVars, socketVars, storeVars, timers, throttledLiveTyping,
                   relayed, now, notified, tables>>

\* joinRoom once UPDATE couple_rooms SET user2_id = $1 WHERE room_id = $2 has
\* resolved.
JoinRoomTakeSlot(p, dbOk) ==
    /\ p \in pending /\ p.kind = "joinRoom-slot"
    /\ IF dbOk
       THEN /\ couple_rooms' = [couple_rooms EXCEPT ![p.roomId].user2_id = p.userId]
            /\ pending' = (pending \ {p}) \cup {[p EXCEPT !.kind = "joinRoom-users"]}
            /\ emitted' = {}
       ELSE /\ pending' = pending \ {p}
            /\ emitted' = {RoomResponse("POST /c/:roomId/join", p, "500")}
            /\ UNCHANGED couple_rooms
    /\ UNCHANGED <<presenceVars, socketVars, storeVars, timers, throttledLiveTyping,
                   relayed, now, notified, live_typing_logs, recent_chats, users,
                   migrationVars>>

\* joinRoom once UPDATE users SET status, current_room_id has resolved, in
\* the member branch and in the free-slot branch: the room is returned and
\* the route answers 200.
JoinRoomSetUser(p, dbOk) ==
    /\ p \in pending /\ p.kind \in {"joinRoom-member", "joinRoom-users"}
    /\ pending' = pending \ {p}
    /\ users' = IF dbOk THEN [users EXCEPT ![p.userId].current_room_id = p.roomId]
                ELSE users
    /\ emitted' = {RoomResponse("POST /c/:roomId/join", p, IF dbOk THEN "200" ELSE "500")}
    /\ UNCHANGED <<presenceVars, socketVars, storeVars, timers, throttledLiveTyping,
                   relayed, now, notified, live_typing_logs, recent_chats, couple_rooms,
                   migrationVars>>

\* POST /u/:userId/leave-room up to the first query of RoomService.leaveRoom.
LeaveRoomRoute(userId) ==
    /\ StartCall("leaveRoom", userId, Null)
    /\ emitted' = {}
    /\ UNCHANGED <<presenceVars, socketVars, storeVars, timers, throttledLiveTyping,
                   relayed, now, notified, tables>>

\* leaveRoom once SELECT current_room_id FROM users has resolved: it returns,
\* and the route answers 200, for a user without a current room.
LeaveRoomFindUser(p) ==
    /\ p \in pending /\ p.kind = "leaveRoom"
    /\ IF users[p.userId].current_room_id = Null
       THEN /\ pending' = pending \ {p}
            /\ emitted' = {RoomResponse("POST /u/:userId/leave-room", p, "200")}
       ELSE /\ pending' = (pending \ {p}) \cup
                             {[p EXCEPT !.kind = "leaveRoom-room",
                                        !.roomId = users[p.userId].current_room_id]}
            /\ emitted' = {}
    /\ UNCHANGED <<presenceVars, socketVars, storeVars, timers, throttledLiveTyping,
                   relayed, now, notified, tables>>

\* leaveRoom once SELECT * FROM couple_rooms WHERE room_id has resolved: it
\* returns for a room without a row and keeps the row it read otherwise.
LeaveRoomFindRoom(p) ==
    /\ p \in pending /\ p.kind = "leaveRoom-room"
    /\ IF p.roomId \notin DOMAIN couple_rooms
       THEN /\ pending' = pending \ {p}
            /\ emitted' = {RoomResponse("POST /u/:userId/leave-room", p, "200")}
       ELSE /\ pending' = (pending \ {p}) \cup
                             {[p EXCEPT !.kind = "leaveRoom-user",
                                        !.room = couple_rooms[p.roomId]]}
            /\ emitted' = {}
    /\ UNCHANGED <<presenceVars, socketVars, storeVars, timers, throttledLiveTyping,
                   relayed, now, notified, tables>>

\* leaveRoom once UPDATE users SET status, current_room_id = NULL has
\* resolved: one of the three UPDATEs of couple_rooms follows when the row
\* read before has the user in a slot, else leaveRoom returns.
LeaveRoomClearUser(p) ==
    /\ p \in pending /\ p.kind = "leaveRoom-user"
    /\ users' = [users EXCEPT ![p.userId].current_room_id = Null]
    /\ IF p.userId \in Slots(p.room)
       THEN /\ pending' = (pending \ {p}) \cup {[p EXCEPT !.kind = "leaveRoom-update"]}
            /\ emitted' = {}
       ELSE /\ pending' = pending \ {p}
            /\ emitted' = {RoomResponse("POST /u/:userId/leave-room", p, "200")}
    /\ UNCHANGED <<presenceVars, socketVars, storeVars, timers, throttledLiveTyping,
                   relayed, now, notified, live_typing_logs, recent_chats, couple_rooms,
                   migrationVars>>

\* The UPDATE of couple_rooms that leaveRoom chooses by the row it has read:
\* user2 becomes user1 when user1 leaves a room of two, the second slot is
\* emptied when user2 leaves, and the room is deactivated when its only
\* member leaves.
leaveRoomUpdate(rooms, roomId, room, userId) ==
    IF room.user1_id = userId /\ room.user2_id # Null
    THEN [rooms EXCEPT ![roomId].user1_id = room.user2_id, ![roomId].user2_id = Null]
    ELSE IF room.user2_id = userId
    THEN [rooms EXCEPT ![roomId].user2_id = Null]
    ELSE IF room.user1_id = userId /\ room.user2_id = Null
    THEN [rooms EXCEPT ![roomId].is_active = FALSE]
    ELSE rooms

\* leaveRoom once its UPDATE of couple_rooms has resolved: the route answers
\* 200.
LeaveRoomUpdateRoom(p) ==
    /\ p \in pending /\ p.kind = "leaveRoom-update"
    /\ pending' = pending \ {p}
    /\ couple_rooms' = leaveRoomUpdate(couple_rooms, p.roomId, p.room, p.userId)
    /\ emitted' = {RoomResponse("POST /u/:userId/leave-room", p, "200")}
    /\ UNCHANGED <<presenceVars, socketVars, storeVars, timers, throttledLiveTyping,
                   relayed, now, notified, live_typing_logs, recent_chats, users,
                   migrationVars>>

\* ----------------------------------------------------- DatabaseMigrations
\* const migrations: the migration files in the order they are listed.
migrationFiles ==
    <<"001_create_recent_chats.sql", "002_create_live_typing_logs.sql",
      "003_create_users.sql", "004_create_couple_rooms.sql",
      "005_add_users_foreign_key.sql", "006_create_messages.sql",
      "007_create_functions.sql", "008_add_image_fields.sql",
      "009_add_video_fields.sql", "010_fix_duration_type.sql">>

Idle == [at |-> 0, phase |-> "idle"]

\* The for loop after runMigration(migrationFiles[i]) has returned.
NextMigration(i) ==
    IF i < Len(migrationFiles) THEN [at |-> i + 1, phase |-> "check"] ELSE Idle

\* The frame of the steps of runMigrations.
MigrationFrame ==
    /\ emitted' = {}
    /\ UNCHANGED <<presenceVars, socketVars, storeVars, timers, throttledLiveTyping,
                   pending, relayed, now, notified, live_typing_logs, recent_chats,
                   roomTables>>

\* server.listen callback: runMigrations up to the resolution of CREATE
\* TABLE IF NOT EXISTS migrations. A throw anywhere in the run ends the
\* process (process.exit(1)); the tables stay as they are.
RunMigrations(dbOk) ==
    /\ migrationRun = Idle
    /\ starts < MaxStarts
    /\ starts' = starts + 1
    /\ migrationRun' = IF dbOk THEN NextMigration(0) ELSE Idle
    /\ UNCHANGED <<migrations, applied>>
    /\ MigrationFrame

\* runMigration once SELECT id FROM migrations WHERE name = $1 has resolved:
\* a name on record is skipped.
RunMigrationCheck(dbOk) ==
    /\ migrationRun.phase = "check"
    /\ migrationRun' =
          IF ~dbOk THEN Idle
          ELSE IF migrationFiles[migrationRun.at] \in migrations
          THEN NextMigration(migrationRun.at)
          ELSE [migrationRun EXCEPT !.phase = "body"]
    /\ UNCHANGED <<migrations, applied, starts>>
    /\ MigrationFrame

\* runMigration once the statements of the file have resolved: a missing
\* file or a rejected statement (ok = FALSE) throws.
RunMigrationBody(ok) ==
    /\ migrationRun.phase = "body"
    /\ applied' = IF ok THEN Append(applied, migrationFiles[migrationRun.at]) ELSE applied
    /\ migrationRun' = IF ok THEN [migrationRun EXCEPT !.phase = "record"] ELSE Idle
    /\ UNCHANGED <<migrations, starts>>
    /\ MigrationFrame

\* runMigration once INSERT INTO migrations (name) VALUES ($1) has resolved.
RunMigrationRecord(dbOk) ==
    /\ migrationRun.phase = "record"
    /\ migrations' = IF dbOk THEN migrations \cup {migrationFiles[migrationRun.at]}
                     ELSE migrations
    /\ migrationRun' = IF dbOk THEN NextMigration(migrationRun.at) ELSE Idle
    /\ UNCHANGED <<applied, starts>>
    /\ MigrationFrame

\* ---------------------------------------------------------- specifications
\* The connection registry under connects, identifications, room joins and
\* leaves, and disconnects.
PresenceUsers == {"u1", "u2"}

NextPresence ==
    \/ \E c \in Conns : Connect(c)
    \/ \E c \in Conns, u \in PresenceUsers : IdentifyUser(c, u)
    \/ \E c \in Conns, u \in PresenceUsers : UserOnline(c, u)
    \/ \E c \in Conns, u \in PresenceUsers : RegisterUser(c, u)
    \/ \E c \in Conns, u \in PresenceUsers \cup {Null} :
           JoinRoom(c, "r1", u # Null, u)
    \/ \E p \in pending : JoinRoomStatus(p)
    \/ \E c \in Conns : LeaveRoom(c, "r1", FALSE, Null)
    \/ \E c \in Conns : Disconnect(c)

SpecPresence == Init /\ [][NextPresence]_vars

\* The message store and the receipt handlers: sends by a member and by a
\* non-member, to the existing room and to a missing one; delivery and seen
\* confirmations over the socket and over HTTP; the auto-delivery timer.
Senders == {"u1", "u3"}
Seers == {"u2", "u3"}
StoreIds == {ToString(i) : i \in 0..MaxMsgs}

\* One socket sends and confirms.
NextStore ==
    \/ Connect(1)
    \/ \E r \in RoomIds, u \in {"u1", Null} : ChatMessage(1, r, u, 0)
    \/ \E p \in pending, ok \in BOOLEAN : ChatMessageSave(p, ok)
    \/ \E t \in timers, ok \in BOOLEAN : AutoDeliver(t, ok)
    \/ \E m \in StoreIds, ok \in BOOLEAN : MessageDelivered(1, m, ok)
    \/ \E p \in pending : MessageDeliveredNotify(p)
    \/ \E m \in StoreIds, u \in Seers \cup {Null}, ok \in BOOLEAN :
           MessageSeen(1, m, u, ok)
    \/ \E p \in pending : MessageSeenNotify(p)
    \/ \E u \in Seers, r \in RoomIds, m \in MsgIds : HttpMarkSeen(u, r, m)
    \/ Tick

SpecStore == Init /\ [][NextStore]_vars

\* Socket 1 sends and confirms; every socket may connect and join the room.
NextReceipt ==
    \/ \E c \in Conns : Connect(c)
    \/ \E c \in Conns : JoinRoom(c, "r1", FALSE, Null)
    \/ \E p \in pending : JoinRoomStatus(p)
    \/ \E r \in RoomIds, u \in Senders \cup {Null} : ChatMessage(1, r, u, 0)
    \/ \E p \in pending, ok \in BOOLEAN : ChatMessageSave(p, ok)
    \/ \E t \in timers, ok \in BOOLEAN : AutoDeliver(t, ok)
    \/ \E m \in StoreIds, ok \in BOOLEAN : MessageDelivered(1, m, ok)
    \/ \E p \in pending : MessageDeliveredNotify(p)
    \/ \E m \in StoreIds, u \in Seers \cup {Null}, ok \in BOOLEAN :
           MessageSeen(1, m, u, ok)
    \/ \E p \in pending : MessageSeenNotify(p)
    \/ \E u \in Seers, r \in RoomIds, m \in MsgIds : HttpMarkSeen(u, r, m)
    \/ Tick
    \/ \E c \in Conns : Disconnect(c)

SpecReceipt == Init /\ [][NextReceipt]_vars

\* Live typing: socket 2 joins the room; both sockets send updates for the
\* member; socket 1 also sends an overlong update, a non-member's update and
\* the member's stop.
TypingInputs == {<<"u1", maxLength>>, <<"u1", maxLength + 1>>, <<"u3", maxLength>>}

NextTyping ==
    \/ \E c \in Conns : Connect(c)
    \/ JoinRoom(2, "r1", FALSE, Null)
    \/ \E p \in pending : JoinRoomStatus(p)
    \/ \E i \in TypingInputs : LiveTyping(1, "r1", i[1], i[2])
    \/ \E c \in Conns \ {1} : LiveTyping(c, "r1", "u1", maxLength)
    \/ \E p \in pending, ok \in BOOLEAN : LiveTypingCheck(p, ok)
    \/ StopLiveTyping(1, "r1", "u1")
    \/ \E p \in pending, ok \in BOOLEAN : StopLiveTypingCheck(p, ok)
    \/ Tick

SpecTyping == Init /\ [][NextTyping]_vars

\* Sends in a row: socket 1 sends messages numbered 1, 2, .. by the client, each
\* after the ones with smaller numbers, without waiting for their acks; socket
\* 2 may have joined the room.
NextOrder ==
    \/ \E c \in Conns : Connect(c)
    \/ JoinRoom(2, "r1", FALSE, Null)
    \/ \E p \in pending : JoinRoomStatus(p)
    \/ \E t \in 1..MaxSending :
          /\ \A p \in SendingOf(1) : p.tempId < t
          /\ ChatMessage(1, "r1", "u1", t)
    \/ \E p \in pending, ok \in BOOLEAN : ChatMessageSave(p, ok)
    \/ \E t \in timers, ok \in BOOLEAN : AutoDeliver(t, ok)
    \/ Tick

SpecOrder == Init /\ [][NextOrder]_vars

\* Room subscriptions: every socket joins and leaves either room id, with the
\* room id as payload, and disconnects.
NextRooms ==
    \/ \E c \in Conns : Connect(c)
    \/ \E c \in Conns, r \in RoomIds : JoinRoom(c, r, FALSE, Null)
    \/ \E p \in pending : JoinRoomStatus(p)
    \/ \E c \in Conns, r \in RoomIds : LeaveRoom(c, r, FALSE, Null)
    \/ \E c \in Conns : Disconnect(c)

SpecRooms == Init /\ [][NextRooms]_vars

\* Live typing up to the disconnect: every socket joins the room, with the room
\* id alone or with {roomId, userId}; socket 1 sends the member's updates;
\* every socket disconnects.
NextTypingEnd ==
    \/ \E c \in Conns : Connect(c)
    \/ \E c \in Conns, u \in {"u1", Null} : JoinRoom(c, "r1", u # Null, u)
    \/ \E p \in pending : JoinRoomStatus(p)
    \/ LiveTyping(1, "r1", "u1", maxLength)
    \/ \E p \in pending, ok \in BOOLEAN : LiveTypingCheck(p, ok)
    \/ \E c \in Conns : Disconnect(c)

SpecTypingEnd == Init /\ [][NextTypingEnd]_vars

\* Content length: socket 2 may join the room; socket 1 sends the member's
\* updates with short content, content of maxLength and of maxLength + 1.
Lengths == {1, maxLength, maxLength + 1}

NextLength ==
    \/ Connect(1)
    \/ Connect(2)
    \/ JoinRoom(2, "r1", FALSE, Null)
    \/ \E p \in pending : JoinRoomStatus(p)
    \/ \E n \in Lengths : LiveTyping(1, "r1", "u1", n)
    \/ \E p \in pending, ok \in BOOLEAN : LiveTypingCheck(p, ok)
    \/ Tick

SpecLength == Init /\ [][NextLength]_vars

\* Confirms with every kind of messageId: socket 1 sends as u1 to the room and
\* confirms delivery and, as u2, seen.
NextConfirm ==
    \/ Connect(1)
    \/ ChatMessage(1, "r1", "u1", 0)
    \/ \E p \in pending, ok \in BOOLEAN : ChatMessageSave(p, ok)
    \/ \E t \in timers, ok \in BOOLEAN : AutoDeliver(t, ok)
    \/ \E m \in RawIds, ok \in BOOLEAN : MessageDelivered(1, m, ok)
    \/ \E p \in pending : MessageDeliveredNotify(p)
    \/ \E m \in RawIds, ok \in BOOLEAN : MessageSeen(1, m, "u2", ok)
    \/ \E p \in pending : MessageSeenNotify(p)
    \/ Tick

SpecConfirm == Init /\ [][NextConfirm]_vars

\* Sends alone: socket 1 sends as u1, or without a userId, to the existing
\* room and to a missing one; socket 2 may have joined the room.
NextSend ==
    \/ Connect(1)
    \/ Connect(2)
    \/ JoinRoom(2, "r1", FALSE, Null)
    \/ \E p \in pending : JoinRoomStatus(p)
    \/ \E r \in RoomIds, u \in {"u1", Null} : ChatMessage(1, r, u, 0)
    \/ \E p \in pending, ok \in BOOLEAN : ChatMessageSave(p, ok)
    \/ \E t \in timers, ok \in BOOLEAN : AutoDeliver(t, ok)
    \/ Tick

SpecSend == Init /\ [][NextSend]_vars

\* Receipts for an absent sender: socket 1 sends as u1 and may disconnect;
\* socket 2 confirms delivery and seen, and may identify as u1 (the sender
\* comes back on a new connection).
NextOffline ==
    \/ Connect(1)
    \/ Connect(2)
    \/ ChatMessage(1, "r1", "u1", 0)
    \/ \E p \in pending, ok \in BOOLEAN : ChatMessageSave(p, ok)
    \/ \E t \in timers, ok \in BOOLEAN : AutoDeliver(t, ok)
    \/ Disconnect(1)
    \/ IdentifyUser(2, "u1")
    \/ \E m \in MsgIds, ok \in BOOLEAN : MessageDelivered(2, ToString(m), ok)
    \/ \E p \in pending : MessageDeliveredNotify(p)
    \/ \E m \in MsgIds, ok \in BOOLEAN : MessageSeen(2, ToString(m), "u2", ok)
    \/ \E p \in pending : MessageSeenNotify(p)
    \/ Tick

SpecOffline == Init /\ [][NextOffline]_vars

\* Deletion: socket 1 sends as u1, confirms, and types; u1 and u2 ask for the
\* deletion of a message over HTTP. The clock stands still, so no timer is due.
NextDelete ==
    \/ Connect(1)
    \/ ChatMessage(1, "r1", "u1", 0)
    \/ \E p \in pending, ok \in BOOLEAN : ChatMessageSave(p, ok)
    \/ \E u \in {"u1", "u2"}, m \in MsgIds, ok \in BOOLEAN : DeleteMessageRoute(u, m, ok)
    \/ \E m \in MsgIds : MessageDelivered(1, ToString(m), TRUE)
    \/ \E p \in pending : MessageDeliveredNotify(p)
    \/ \E m \in MsgIds : MessageSeen(1, ToString(m), "u2", TRUE)
    \/ \E p \in pending : MessageSeenNotify(p)
    \/ LiveTyping(1, "r1", "u1", 1)
    \/ \E p \in pending : LiveTypingCheck(p, TRUE)

SpecDelete == Init /\ [][NextDelete]_vars

\* Deletion before the timer runs: socket 1 sends as u1 and may disconnect; u1
\* deletes a message over HTTP. The clock advances, and a timer that is due
\* runs.
NextDeleteTimer ==
    \/ Connect(1)
    \/ ChatMessage(1, "r1", "u1", 0)
    \/ \E p \in pending, ok \in BOOLEAN : ChatMessageSave(p, ok)
    \/ \E t \in timers, ok \in BOOLEAN : AutoDeliver(t, ok)
    \/ \E m \in MsgIds : DeleteMessageRoute("u1", m, TRUE)
    \/ Disconnect(1)
    \/ Tick

SpecDeleteTimer ==
    /\ Init /\ [][NextDeleteTimer]_vars
    /\ WF_vars(Tick)
    /\ WF_vars(\E t \in timers, ok \in BOOLEAN : AutoDeliver(t, ok))

\* Identification: sockets 1 and 2 identify, and identify again, as either
\* member, register through user-online, and disconnect.
NextIdentify ==
    \/ Connect(1)
    \/ Connect(2)
    \/ \E c \in {1, 2}, u \in PresenceUsers : IdentifyUser(c, u)
    \/ \E c \in {1, 2}, u \in PresenceUsers : UserOnline(c, u)
    \/ \E c \in {1, 2} : Disconnect(c)

SpecIdentify == Init /\ [][NextIdentify]_vars

\* The room guard: socket 1 sends stops for every user and either room id, the
\* existing r1 and the missing r2, and updates for the second member and for
\* a non-member; the room lookup may fail. The clock stands still.
NextGuard ==
    \/ Connect(1)
    \/ \E r \in RoomIds, u \in {"u2", "u3"} : LiveTyping(1, r, u, 1)
    \/ \E p \in pending, ok \in BOOLEAN : LiveTypingCheck(p, ok)
    \/ \E r \in RoomIds, u \in Users : StopLiveTyping(1, r, u)
    \/ \E p \in pending, ok \in BOOLEAN : StopLiveTypingCheck(p, ok)

SpecGuard == Init /\ [][NextGuard]_vars

\* Room access: socket 2 joins r1 as the member u2 or as u3, who is no member;
\* socket 1 sends, types and confirms in r1.
NextAccess ==
    \/ Connect(1)
    \/ Connect(2)
    \/ \E u \in {"u2", "u3"} : JoinRoom(2, "r1", TRUE, u)
    \/ \E p \in pending : JoinRoomStatus(p)
    \/ ChatMessage(1, "r1", "u1", 0)
    \/ \E p \in pending, ok \in BOOLEAN : ChatMessageSave(p, ok)
    \/ \E t \in timers, ok \in BOOLEAN : AutoDeliver(t, ok)
    \/ LiveTyping(1, "r1", "u1", 1)
    \/ \E p \in pending, ok \in BOOLEAN : LiveTypingCheck(p, ok)
    \/ \E m \in MsgIds : MessageSeen(1, ToString(m), "u1", TRUE)
    \/ \E p \in pending : MessageSeenNotify(p)
    \/ Tick

SpecAccess == Init /\ [][NextAccess]_vars

\* Receipt notifications on record: socket 1 sends as u1 and confirms delivery
\* and, as u2, seen, any number of times; the timer runs when due.
NextNotify ==
    \/ Connect(1)
    \/ ChatMessage(1, "r1", "u1", 0)
    \/ \E p \in pending, ok \in BOOLEAN : ChatMessageSave(p, ok)
    \/ \E t \in timers, ok \in BOOLEAN : AutoDeliverRecorded(t, ok)
    \/ \E m \in StoreIds, ok \in BOOLEAN : MessageDelivered(1, m, ok)
    \/ \E p \in pending : MessageDeliveredNotifyRecorded(p)
    \/ \E m \in StoreIds, ok \in BOOLEAN : MessageSeen(1, m, "u2", ok)
    \/ \E p \in pending : MessageSeenNotifyRecorded(p)
    \/ Tick

SpecNotify == Init /\ [][NextNotify]_vars

\* Typing analytics: sockets 1 and 2 report typing sessions of the member u1
\* and of the outsider u3, with or without a room id, while a room broadcast
\* may be under way on socket 1.
NextSessionLog ==
    \/ Connect(1) \/ Connect(2)
    \/ JoinRoom(2, "r1", FALSE, Null)
    \/ \E p \in pending : JoinRoomStatus(p)
    \/ \E c \in {1, 2}, r \in {"r1", Null}, u \in {"u1", "u3"}, n \in {0, 5} :
          TypingSessionEnd(c, r, u, n)
    \/ \E p \in pending, ok \in BOOLEAN : TypingSessionEndCheck(p, ok)
    \/ \E p \in pending, ok \in BOOLEAN : TypingSessionEndLog(p, ok)

SpecSessionLog == Init /\ [][NextSessionLog]_vars

\* Recent chats over HTTP: u1 keeps r1 and r2, named or not, u2 keeps r1;
\* entries are updated, deleted and listed while the clock advances.
NextRecent ==
    \/ \E u \in {"u1", Null}, r \in RoomIds, n \in {"n1", Null}, ok \in BOOLEAN :
          PostRecentChat(u, r, n, ok)
    \/ PostRecentChat("u2", "r1", Null, TRUE)
    \/ \E r \in RoomIds, ok \in BOOLEAN : PutRecentChat("u1", r, 2, FALSE, ok)
    \/ \E u \in {"u1", "u2"}, r \in RoomIds, ok \in BOOLEAN : DeleteRecentChatRoute(u, r, ok)
    \/ \E u \in {"u1", "u2"}, ok \in BOOLEAN : GetRecentChats(u, ok)
    \/ Tick

SpecRecent == Init /\ [][NextRecent]_vars

\* Receipts against deletion: socket 1 sends as u1; the message is confirmed
\* delivered and seen over the socket, auto-delivered by its timer and
\* deleted by its sender, in any order, with the store up or down.
NextReceiptOrder ==
    \/ Connect(1)
    \/ ChatMessage(1, "r1", "u1", 0)
    \/ \E p \in pending, ok \in BOOLEAN : ChatMessageSave(p, ok)
    \/ \E t \in timers, ok \in BOOLEAN : AutoDeliver(t, ok)
    \/ \E m \in MsgIds, ok \in BOOLEAN : MessageDelivered(1, ToString(m), ok)
    \/ \E p \in pending : MessageDeliveredNotify(p)
    \/ \E m \in MsgIds, ok \in BOOLEAN : MessageSeen(1, ToString(m), "u2", ok)
    \/ \E p \in pending : MessageSeenNotify(p)
    \/ \E m \in MsgIds : DeleteMessageRoute("u1", m, TRUE)
    \/ Tick

SpecReceiptOrder == Init /\ [][NextReceiptOrder]_vars

\* Joins over HTTP: u1 holds r1 alone; u1, u2 and u3 ask to join r1 or the
\* missing r2, their calls interleaving at every query.
NextJoin ==
    \/ \E u \in Users \cup {Null}, r \in RoomIds : JoinRoomRoute(u, r)
    \/ \E p \in pending, ok \in BOOLEAN : JoinRoomFind(p, ok)
    \/ \E p \in pending, ok \in BOOLEAN : JoinRoomTakeSlot(p, ok)
    \/ \E p \in pending, ok \in BOOLEAN : JoinRoomSetUser(p, ok)

SpecJoin == InitRoomService /\ [][NextJoin]_vars

\* Joins and leaves over HTTP: u1 holds r1 alone; u2 may join, and u1 and u2
\* may leave, their calls interleaving at every query.
NextLeave ==
    \/ JoinRoomRoute("u2", "r1")
    \/ \E p \in pending : JoinRoomFind(p, TRUE)
    \/ \E p \in pending : JoinRoomTakeSlot(p, TRUE)
    \/ \E p \in pending : JoinRoomSetUser(p, TRUE)
    \/ \E u \in {"u1", "u2"} : LeaveRoomRoute(u)
    \/ \E p \in pending : LeaveRoomFindUser(p)
    \/ \E p \in pending : LeaveRoomFindRoom(p)
    \/ \E p \in pending : LeaveRoomClearUser(p)
    \/ \E p \in pending : LeaveRoomUpdateRoom(p)

SpecLeave == InitRoomService /\ [][NextLeave]_vars

\* Server starts: each start runs the migrations on an empty or partly
\* migrated database; any query of the run may be rejected.
NextMigrate ==
    \/ \E ok \in BOOLEAN : RunMigrations(ok)
    \/ \E ok \in BOOLEAN : RunMigrationCheck(ok)
    \/ \E ok \in BOOLEAN : RunMigrationBody(ok)
    \/ \E ok \in BOOLEAN : RunMigrationRecord(ok)

SpecMigrate == Init /\ [][NextMigrate]_vars

\* -------------------------------------------------------------- properties
\* Connection c is registered for a user whose connection on record is another,
\* newer one.
Superseded(c) ==
    /\ userSockets[c] # Null
    /\ activeUsers[userSockets[c]] \notin {c, NoSocket}

\* C1: setUserOffline(c), for a connection c that is no longer the connection
\* on record for its user, returns null and leaves both registry maps
\* unchanged.
C1_SupersededOfflineIsNoop ==
    \A c \in Connected :
        Superseded(c) =>
            LET r == setUserOffline(activeUsers, userSockets, c) IN
            /\ r.ret = Null
            /\ r.activeUsers = activeUsers
            /\ r.userSockets = userSockets

\* C2: the disconnect of a superseded connection is a no-op: nothing is
\* emitted (no user-offline, no user-stopped-live-typing) and the user still
\* resolves to the newer connection.
C2_SupersededDisconnectIsNoop ==
    [][\A c \in Conns :
          (/\ connState[c] = "connected"
           /\ connState'[c] = "disconnected"
           /\ Superseded(c))
          => /\ emitted' = {}
             /\ activeUsers'[userSockets[c]] = activeUsers[userSockets[c]]]_vars

\* C3: in every reachable state a user is online only if the connection on
\* record for the user has not disconnected and currently identifies as that
\* user.
C3_OnlineMeansLiveConnection ==
    \A u \in Users :
        isUserOnline(u) =>
            /\ connState[getSocketByUserId(u)] = "connected"
            /\ sockUserId[getSocketByUserId(u)] = u

\* The status derived from the receipt columns: sent 0, delivered 1, seen 2.
StatusRank(m) ==
    IF m.seen_at # NoTime THEN 2 ELSE IF m.delivered_at # NoTime THEN 1 ELSE 0

\* C4: under delivery-confirm, seen-confirm, the HTTP mark-seen route and the
\* auto-delivery timer, in any order, delivered_at and seen_at once set are
\* never cleared and the derived status never moves backward.
C4_ReceiptStateMonotonic ==
    [][\A i \in DOMAIN messages \cap DOMAIN messages' :
          /\ messages[i].delivered_at # NoTime => messages'[i].delivered_at # NoTime
          /\ messages[i].seen_at # NoTime => messages'[i].seen_at # NoTime
          /\ StatusRank(messages'[i]) >= StatusRank(messages[i])]_vars

\* A message seen first and marked delivered later, by a delivery write that
\* found the seen columns already set.
C4_DeliveredAfterSeen ==
    \E i \in DOMAIN messages :
        /\ messages[i].seen_at # NoTime
        /\ messages[i].delivered_at > messages[i].seen_at

\* C5: delivered_at is written at most once per message, and seen_at with
\* seen_by_user_id at most once: a later confirm or timer leaves them as they
\* are.
C5_ReceiptWrittenOnce ==
    [][\A i \in DOMAIN messages \cap DOMAIN messages' :
          /\ messages[i].delivered_at # NoTime
                => messages'[i].delivered_at = messages[i].delivered_at
          /\ messages[i].seen_at # NoTime
                => /\ messages'[i].seen_at = messages[i].seen_at
                   /\ messages'[i].seen_by_user_id = messages[i].seen_by_user_id]_vars

\* The connections the chat-message broadcast of message i was handed to.
Handoff(i) ==
    UNION {e.to : e \in {r \in relayed : r.ev = "chat-message" /\ r.messageId = i}}

\* C6: a message broadcast while no other connection was joined to the room,
\* and not confirmed since, stays without delivered_at when its auto-delivery
\* timer runs, and its sender gets no status update "delivered".
C6_NoDeliveryWithoutHandoff ==
    [][\A t \in timers \ timers' :
          (/\ t.messageId \in DOMAIN messages
           /\ messages[t.messageId].delivered_at = NoTime
           /\ Handoff(t.messageId) = {})
          => /\ messages'[t.messageId].delivered_at = NoTime
             /\ \A e \in emitted' :
                   ~(e.ev = "message-status-update" /\ e.status = "delivered")]_vars

\* C7: a chat-message whose userId is not a member of the target room, or
\* whose room does not exist, is answered with a rejection to the caller;
\* nothing is persisted, nothing is broadcast, no auto-delivery is scheduled.
C7_SendNeedsMembership ==
    [][\A p \in pending \ pending' :
          (p.kind = "chat-message" /\ p.userId \notin getUsersInRoom(p.roomId))
          => /\ connState[p.conn] = "connected"
                   => \E e \in emitted' : e.ev = "message-error" /\ p.conn \in e.to
             /\ UNCHANGED <<messages, timers, relayed>>]_vars

\* C8: a seen-confirm is applied only for a member of the message's room: one
\* naming any other user leaves no seen_at / seen_by_user_id behind and
\* notifies no connection.
C8_SeenNeedsMembership ==
    [][/\ \A i \in DOMAIN messages' :
             messages'[i].seen_at # NoTime
                => messages'[i].seen_by_user_id \in getUsersInRoom(messages'[i].room_id)
       /\ \A p \in pending \ pending' :
             (/\ p.kind = "message-seen"
              /\ p.messageId \in DOMAIN messages
              /\ p.userId \notin getUsersInRoom(messages[p.messageId].room_id))
             => emitted' = {}]_vars

\* The live-typing updates relayed so far.
TypingRelays == {e \in relayed : e.ev = "user-live-typing"}

\* C9: any two relayed live-typing updates of one (roomId, userId) key arrived
\* at least throttleMs apart, whichever connections they arrived on.
C9_RelaysThrottleApart ==
    \A e1, e2 \in TypingRelays :
        (e1 # e2 /\ e1.roomId = e2.roomId /\ e1.userId = e2.userId)
        => \/ e1.arrived - e2.arrived >= throttleMs
           \/ e2.arrived - e1.arrived >= throttleMs

\* The last accepted timestamp on record for a key, over all connections.
Recorded(key) ==
    LET ts == {throttledLiveTyping[c][key] : c \in Conns}
    IN CHOOSE t \in ts : \A x \in ts : x <= t

\* C10: an authorized update of valid size is relayed if it arrived at least
\* throttleMs after the last accepted update of its key, or is the first of
\* the key; one that arrived inside the window is not relayed and leaves the
\* recorded timestamps as they are.
C10_ThrottleDecision ==
    [][\A p \in pending \ pending' :
          (/\ p.kind = "live-typing"
           /\ validateUserRoomAccess(p.userId, p.roomId, TRUE)
           /\ p.len <= maxLength
           /\ \A e \in emitted' : e.ev # "error")
          => LET last == Recorded(<<p.roomId, p.userId>>)
                 isRelayed == \E e \in emitted' :
                                 /\ e.ev = "user-live-typing"
                                 /\ e.from = p.conn
                                 /\ e.arrived = p.at
             IN IF last = NoTime \/ p.at - last >= throttleMs
                THEN isRelayed
                ELSE ~isRelayed /\ throttledLiveTyping' = throttledLiveTyping]_vars

\* C11: messages of one connection are persisted and broadcast in the order
\* they were received: a message is inserted (taking the next id) and
\* broadcast only when no message the same connection sent before it is still
\* waiting for its store write.
C11_SendOrderKept ==
    [][\A p \in pending \ pending' :
          (p.kind = "chat-message" /\ nextId \in DOMAIN messages' \ DOMAIN messages)
          => \A q \in pending' :
                (q.kind = "chat-message" /\ q.conn = p.conn) => q.tempId > p.tempId]_vars

\* C12: in every reachable state a connection is subscribed to at most one
\* room, and that room is its tracked roomId.
C12_SubscriptionIsTrackedRoom ==
    \A c \in Conns :
        /\ Cardinality(joined[c]) <= 1
        /\ joined[c] \subseteq {sockRoomId[c]}

\* C13: when a connection that had joined a room disconnects, a
\* user-stopped-live-typing for that room goes to the room's other connections
\* and none of the connection's throttle keys is left.
C13_DisconnectEndsTyping ==
    [][\A c \in Conns :
          (/\ connState[c] = "connected"
           /\ connState'[c] = "disconnected"
           /\ sockRoomId[c] # Null)
          => /\ \E e \in emitted' :
                   /\ e.ev = "user-stopped-live-typing"
                   /\ e.roomId = sockRoomId[c]
                   /\ e.to = RoomPeers(c, sockRoomId[c])
             /\ \A k \in Keys : throttledLiveTyping'[c][k] = NoTime]_vars

\* C14: a live-typing update or a stop-live-typing that the room access check
\* denies is dropped silently: no event is emitted to anyone and no throttle
\* entry is written.
C14_DeniedTypingIsSilent ==
    [][\A p \in pending \ pending' :
          (/\ p.kind \in {"live-typing", "stop-live-typing"}
           /\ ~validateUserRoomAccess(p.userId, p.roomId, TRUE))
          => /\ emitted' = {}
             /\ throttledLiveTyping' = throttledLiveTyping]_vars

NamesMessage(raw) == \E i \in DOMAIN messages : ToString(i) = raw

SenderEvents ==
    {"message-delivery-confirmed", "message-seen", "message-status-update",
     "message-read-receipt"}

\* C17: when the sender of a message has no registered connection, a delivered
\* or seen transition is still persisted; a sender-directed notification is
\* emitted only by the receipt handler or timer of that message, at the moment
\* it looks the sender up, and only to the connection then on record for the
\* sender: none when there is no such connection, and none by any later step
\* such as the sender's new connection identifying itself.
C17_OfflineSenderNotNotified ==
    [][/\ \A i \in DOMAIN messages :
             activeUsers[messages[i].sender_id] = NoSocket
             => /\ MessageDelivered(2, ToString(i), TRUE)
                      => messages'[i].delivered_at = now
                /\ MessageSeen(2, ToString(i), "u2", TRUE)
                      => messages'[i].seen_at = now
                /\ (\E t \in timers : t.messageId = i /\ AutoDeliver(t, TRUE))
                      => messages'[i].delivered_at = now
       /\ \A e \in emitted' :
             e.ev \in SenderEvents
             => /\ e.messageId \in DOMAIN messages
                /\ activeUsers[messages[e.messageId].sender_id] # NoSocket
                /\ e.to \subseteq {activeUsers[messages[e.messageId].sender_id]}
                /\ \/ \E p \in pending \ pending' : p.messageId = e.messageId
                   \/ \E t \in timers \ timers' : t.messageId = e.messageId]_vars

\* The seen handler has just completed for a message whose sender has no
\* registered connection: the row carries seen_at, and only the room-wide
\* event was emitted.
C17_SeenWhileSenderOffline ==
    \E i \in DOMAIN messages :
        /\ activeUsers[messages[i].sender_id] = NoSocket
        /\ messages[i].seen_at # NoTime
        /\ emitted # {}
        /\ \A e \in emitted : e.ev = "message-seen-confirmed" /\ e.messageId = i

\* C18: a seen-confirm for an existing message emits message-seen to the
\* sender's connection when the sender is online, and a message-seen-confirmed
\* that reaches every connection joined to the message's room, those of both
\* members.
C18_SeenReachesWholeRoom ==
    [][\A p \in pending \ pending' :
          (p.kind = "message-seen" /\ p.messageId \in DOMAIN messages)
          => LET m == messages[p.messageId] IN
             /\ activeUsers[m.sender_id] \in Connected
                   => \E e \in emitted' :
                         /\ e.ev = "message-seen"
                         /\ activeUsers[m.sender_id] \in e.to
             /\ \E e \in emitted' :
                   /\ e.ev = "message-seen-confirmed"
                   /\ e.to = {d \in Connected : m.room_id \in joined[d]}]_vars

\* C19: a seen-confirm for a message without delivered_at sets seen_at and
\* seen_by_user_id and leaves delivered_at unset; delivered_at changes only in
\* a step of the auto-delivery timer of the message or of a delivery-confirm
\* for it.
C19_SeenLeavesDeliveredAt ==
    [][\A i \in DOMAIN messages :
          /\ \A u \in Seers :
                (messages[i].delivered_at = NoTime /\ MessageSeen(1, ToString(i), u, TRUE))
                => /\ messages'[i].seen_at = now
                   /\ messages'[i].seen_by_user_id = u
                   /\ messages'[i].delivered_at = NoTime
          /\ (i \in DOMAIN messages' /\ messages'[i].delivered_at # messages[i].delivered_at)
                => \/ \E t \in timers \ timers' : t.messageId = i
                   \/ \E p \in pending' \ pending :
                         p.kind = "message-delivered" /\ p.messageId = i]_vars

\* A message seen by u2 that has no delivered_at.
C19_SeenNotDelivered ==
    \E i \in DOMAIN messages :
        /\ messages[i].seen_at # NoTime
        /\ messages[i].seen_by_user_id = "u2"
        /\ messages[i].delivered_at = NoTime

\* C20: every chat-message gets exactly one reply to its connection:
\* message-error when a required field is missing or the store write fails,
\* message-sent when the row was inserted; a failed write broadcasts nothing,
\* schedules no timer and is not tried again.
C20_SendAlwaysAnswered ==
    [][/\ (\E r \in RoomIds : ChatMessage(1, r, Null, 0))
             => /\ Cardinality(emitted') = 1
                /\ \A e \in emitted' : e.ev = "message-error" /\ e.to = {1}
                /\ UNCHANGED <<messages, timers, relayed, pending>>
       /\ \A p \in pending \ pending' :
             p.kind = "chat-message"
             => LET replies == {e \in emitted' :
                                  /\ e.ev \in {"message-sent", "message-error"}
                                  /\ p.conn \in e.to}
                    persisted == DOMAIN messages' # DOMAIN messages
                IN /\ Cardinality(replies) = 1
                   /\ \A e \in replies :
                         e.ev = IF persisted THEN "message-sent" ELSE "message-error"
                   /\ ~persisted
                         => /\ UNCHANGED <<messages, timers, relayed>>
                            /\ pending' \subseteq pending]_vars

\* The store has just rejected the only insert tried so far: the sender got
\* message-error; there is no row, no broadcast and no timer.
C20_FailedSendAnswered ==
    /\ \E e \in emitted : e.ev = "message-error" /\ e.to = {1}
    /\ nextId = 2
    /\ DOMAIN messages = {}
    /\ timers = {}
    /\ relayed = {}

\* C21: for one message the sender is told at most once of the delivered
\* transition and at most once of the seen transition: no step emits a
\* sender-directed event for a transition that an earlier step already
\* carried to a connection.
C21_ReceiptNotifiedOnce ==
    [][\A transition \in {"delivered", "seen"} :
          Told(emitted', transition) \cap notified = {}]_vars

\* A timer that can still run within the clock's range, for a message that
\* has been deleted.
OrphanTimer ==
    \E t \in timers : t.messageId \notin DOMAIN messages /\ t.due <= MaxTime

\* C22: deleting a message does not cancel its auto-delivery timer: the
\* deletion leaves the timer pending and the timer still runs; when it does,
\* the sender's connection on record is told "delivered", and no row is
\* created for the deleted message.
C22_TimerSurvivesDeletion ==
    /\ [][/\ DOMAIN messages' # DOMAIN messages /\ DOMAIN messages' \subseteq DOMAIN messages
              => timers' = timers
          /\ \A t \in timers \ timers' :
                t.messageId \notin DOMAIN messages
                => /\ messages' = messages
                   /\ (AutoDeliver(t, TRUE) /\ activeUsers[t.sender_id] \in Connected)
                         => \E e \in emitted' :
                               /\ e.ev = "message-status-update"
                               /\ e.status = "delivered"
                               /\ e.messageId = t.messageId
                               /\ e.to = {activeUsers[t.sender_id]}]_vars
    /\ OrphanTimer ~> ~OrphanTimer

\* The timer of a deleted message has just run: the sender was told
\* "delivered" and the table has no row.
C22_DeliveredAfterDeletion ==
    /\ DOMAIN messages = {}
    /\ timers = {}
    /\ \E e \in emitted :
          /\ e.ev = "message-status-update"
          /\ e.status = "delivered"
          /\ e.to = {1}

C23_ThrottleStepAtomic ==
    [][/\ \A p \in pending \ pending' :
             (p.kind = "live-typing" /\ \E e \in emitted' : e.ev = "user-live-typing")
             => /\ now - throttledLiveTyping[p.conn][<<p.roomId, p.userId>>] >= throttleMs
                /\ throttledLiveTyping'[p.conn][<<p.roomId, p.userId>>] = now
       /\ \A e1, e2 \in {e \in relayed' : e.ev = "user-live-typing"} :
             (/\ e1 # e2
              /\ e1.from = e2.from
              /\ e1.roomId = e2.roomId /\ e1.userId = e2.userId)
             => e1.at - e2.at >= throttleMs \/ e2.at - e1.at >= throttleMs]_vars

\* A live-typing handler of socket 1 has relayed an update at the current
\* time while another one of the same key, received earlier, is still
\* suspended: the later check will find the timestamp just written.
C23_SecondHandlerSuspended ==
    \E e \in relayed, p \in pending :
        /\ e.ev = "user-live-typing" /\ p.kind = "live-typing"
        /\ p.conn = e.from
        /\ p.roomId = e.roomId /\ p.userId = e.userId
        /\ p.at < e.at
        /\ e.at = now
        /\ throttledLiveTyping[p.conn][<<p.roomId, p.userId>>] = now

\* C24: setUserOnline(userId, connectionId) always overwrites: right after an
\* identify-user, or a user-online on a connection without a userId, the user
\* resolves to that connection and the connection to that user, whatever
\* entries the user or the connection had before.
C24_LastConnectionWins ==
    [][\A c \in {1, 2}, u \in PresenceUsers :
          (\/ IdentifyUser(c, u)
           \/ sockUserId[c] = Null /\ UserOnline(c, u))
          => /\ activeUsers'[u] = c
             /\ userSockets'[c] = u]_vars

\* u1 was registered on socket 1, then on socket 2, which has since
\* identified again as u2: both overwrites have happened.
C24_OverwrittenTwice ==
    /\ userSockets[1] = "u1"
    /\ activeUsers["u1"] = 2
    /\ userSockets[2] = "u2"
    /\ activeUsers["u2"] = 2

\* userId is in one of the two member slots of an existing room.
IsMember(userId, roomId) ==
    IF roomId \in DOMAIN couple_rooms
    THEN userId \in {couple_rooms[roomId].user1_id, couple_rooms[roomId].user2_id}
    ELSE FALSE

\* C25: validateUserRoomAccess(userId, roomId) is true exactly when the room
\* lookup succeeds, the room exists and userId is its user1_id or user2_id:
\* a stop-live-typing goes on to its relay exactly then, and a live-typing is
\* answered "Access denied to room" exactly otherwise.
C25_GuardIsMembership ==
    [][\A p \in pending \ pending', ok \in BOOLEAN :
          LET granted == ok /\ IsMember(p.userId, p.roomId) IN
          /\ (p.kind = "stop-live-typing" /\ StopLiveTypingCheck(p, ok))
                => ((emitted' # {}) <=> granted)
          /\ (p.kind = "live-typing" /\ LiveTypingCheck(p, ok))
                => ((\E e \in emitted' : e.status = "Access denied to room")
                        <=> ~granted)]_vars

\* The stop of u2, who holds the room's second slot, has just passed the guard.
C25_SecondMemberGranted ==
    \E e \in emitted :
        /\ e.ev = "user-stopped-live-typing"
        /\ e.userId = "u2"
        /\ e.roomId = "r1"

\* The events a handler sends to a room with socket.to(roomId).
RoomBroadcasts ==
    {"chat-message", "user-live-typing", "user-stopped-live-typing",
     "message-seen-confirmed"}

\* C26: a room's chat-message, typing and receipt broadcasts reach a
\* connection only if the user that connection acts for is one of the room's
\* two members.
C26_BroadcastsReachMembersOnly ==
    [][\A e \in emitted' :
          (e.ev \in RoomBroadcasts /\ (e.roomId # Null \/ e.messageId \in DOMAIN messages))
          => LET roomId == IF e.roomId # Null THEN e.roomId
                           ELSE messages[e.messageId].room_id
             IN \A d \in e.to : sockUserId'[d] \in getUsersInRoom(roomId)]_vars

\* C28: an authorized stop-live-typing relays user-stopped-live-typing to the
\* room's other connections and removes the (roomId, userId) throttle key, so
\* that the next update of the key is relayed however recently the last one
\* was accepted: after the stop no connection's map holds a timestamp for the
\* key that would still throttle an update.
C28_StopClearsThrottle ==
    [][\A p \in pending \ pending' :
          (/\ p.kind = "stop-live-typing"
           /\ validateUserRoomAccess(p.userId, p.roomId, TRUE)
           /\ emitted' # {})
          => /\ \E e \in emitted' :
                   /\ e.ev = "user-stopped-live-typing"
                   /\ e.to = RoomPeers(p.conn, p.roomId)
             /\ \A c \in Conns :
                   now - throttledLiveTyping'[c][<<p.roomId, p.userId>>] >= throttleMs]_vars

\* C29: a store failure while a delivered or seen receipt is persisted does
\* not stop the notification: no error event goes to any connection, the
\* auto-delivery timer still tells the online sender "delivered", and a
\* delivery-confirm or seen-confirm handler still goes on to its notification.
C29_FailedWriteStillNotifies ==
    [][\A i \in DOMAIN messages :
          activeUsers[messages[i].sender_id] \in Connected
          => /\ \A t \in timers :
                   (t.messageId = i /\ AutoDeliver(t, FALSE))
                   => /\ \A e \in emitted' : e.ev \notin {"error", "message-error"}
                      /\ \E e \in emitted' :
                            /\ e.ev = "message-status-update"
                            /\ e.status = "delivered"
                            /\ e.messageId = i
             /\ MessageDelivered(1, ToString(i), FALSE)
                   => /\ \A e \in emitted' : e.ev \notin {"error", "message-error"}
                      /\ \E p \in pending' :
                            p.kind = "message-delivered" /\ p.messageId = i
             /\ (\E u \in Seers : MessageSeen(1, ToString(i), u, FALSE))
                   => /\ \A e \in emitted' : e.ev \notin {"error", "message-error"}
                      /\ \E p \in pending' :
                            p.kind = "message-seen" /\ p.messageId = i]_vars

\* C30: a message is created in the state sent: in the step that inserts it,
\* the stored row, which is what saveMessage returns and what getMessage
\* finds right after, has delivered_at, seen_at and seen_by_user_id unset, and
\* the chat-message broadcast and the message-sent ack of the step carry its
\* id, status "sent" and empty receipt fields.
C30_CreatedAsSent ==
    [][\A p \in pending \ pending' :
          (p.kind = "chat-message" /\ nextId \in DOMAIN messages' \ DOMAIN messages)
          => /\ getMessage(messages', nextId) # {}
             /\ \A m \in getMessage(messages', nextId) :
                   /\ m.delivered_at = NoTime
                   /\ m.seen_at = NoTime
                   /\ m.seen_by_user_id = Null
             /\ \A ev \in {"chat-message", "message-sent"} :
                   \E e \in emitted' : e.ev = ev
             /\ \A e \in emitted' :
                   e.ev \in {"chat-message", "message-sent"}
                   => /\ e.messageId = nextId
                      /\ e.status = "sent"
                      /\ e.delivered_at = NoTime
                      /\ e.seen_at = NoTime
                      /\ e.seen_by_user_id = Null]_vars

\* Message 1 has just been inserted while socket 2 was in the room: the
\* broadcast went to socket 2, the ack to socket 1, and the row is in the
\* state sent.
C30_SentBroadcastAndAck ==
    /\ 1 \in DOMAIN messages
    /\ StatusRank(messages[1]) = 0
    /\ \E e \in emitted : e.ev = "chat-message" /\ e.to = {2} /\ e.status = "sent"
    /\ \E e \in emitted : e.ev = "message-sent" /\ e.to = {1} /\ e.status = "sent"

\* C31: a typing-session-end of a user with access to the room adds exactly
\* one row to live_typing_logs, the row of its room, user and final length,
\* when the INSERT succeeds and none when it fails; in both cases the step
\* emits no event to anyone and changes nothing else but the set of suspended
\* handlers; the steps of the handler before the INSERT emit nothing and
\* leave the table alone.
C31_SessionEndLogsSilently ==
    [][/\ \A p \in pending \ pending' :
             p.kind \in SessionKinds
             => /\ emitted' = {}
                /\ relayed' = relayed
                /\ UNCHANGED <<presenceVars, socketVars, storeVars, timers,
                               throttledLiveTyping, now, notified>>
                /\ p.kind = "typing-session-end" => UNCHANGED live_typing_logs
                /\ p.kind = "typing-session-log"
                   => \/ UNCHANGED live_typing_logs
                      \/ /\ Len(live_typing_logs') = Len(live_typing_logs) + 1
                         /\ SubSeq(live_typing_logs', 1, Len(live_typing_logs))
                                = live_typing_logs
                         /\ live_typing_logs'[Len(live_typing_logs')]
                                = [room_id |-> p.roomId, user_id |-> p.userId,
                                   content_length |-> p.len]
       /\ \A p \in pending :
             /\ TypingSessionEndLog(p, TRUE)
                => Len(live_typing_logs') = Len(live_typing_logs) + 1
             /\ TypingSessionEndLog(p, FALSE) => UNCHANGED live_typing_logs
       /\ live_typing_logs' # live_typing_logs
          => \E p \in pending \ pending' :
                /\ p.kind = "typing-session-log"
                /\ p.userId \in {couple_rooms[p.roomId].user1_id,
                                  couple_rooms[p.roomId].user2_id}]_vars

\* The session of u1 in r1 with final length 5 is on record, no handler is
\* suspended, socket 2 is subscribed to r1, and the latest step emitted
\* nothing.
C31_SessionLogged ==
    /\ live_typing_logs = <<[room_id |-> "r1", user_id |-> "u1", content_length |-> 5]>>
    /\ pending = {}
    /\ "r1" \in joined[2]
    /\ emitted = {}

\* C32: a POST /recent-chats answered with 200 leaves the listing of its
\* user with exactly one entry for its room, however often the pair has been
\* posted before, and with exactly one entry in all when the listing was
\* empty; it leaves the entries of the other rooms and of the other users as
\* they were, and the table never holds two rows of one pair.
C32_PostIsUpsert ==
    [][\A e \in emitted' :
          (e.ev = "POST /recent-chats" /\ e.status = "200")
          => /\ \A before \in getRecentChats(recent_chats, e.userId),
                   after \in getRecentChats(recent_chats', e.userId) :
                   /\ Cardinality({c \in after : c.roomId = e.roomId}) = 1
                   /\ before = {} => Cardinality(after) = 1
                   /\ {c \in after : c.roomId # e.roomId}
                        = {c \in before : c.roomId # e.roomId}
             /\ \A u \in Users \ {e.userId} :
                   getRecentChats(recent_chats', u) = getRecentChats(recent_chats, u)
             /\ \A u \in Users, r \in RoomIds :
                   Cardinality(RecentChatRows(recent_chats', u, r)) <= 1]_vars

\* u1 has posted r1 at 1000 and again, under another name, at 1100, and has
\* r2 besides: the listing of u1 has one entry for r1, visited at 1100.
C32_PostedTwice ==
    /\ \E e \in emitted : e.ev = "POST /recent-chats" /\ e.status = "200"
                            /\ e.userId = "u1" /\ e.roomId = "r1"
    /\ now = StartTime + TickMs
    /\ \E row \in recent_chats :
          /\ row.user_id = "u1" /\ row.room_id = "r2"
          /\ row.last_visited = StartTime
    /\ \A l \in getRecentChats(recent_chats, "u1") :
          /\ Cardinality(l) = 2
          /\ \E c \in l : c.roomId = "r1" /\ c.lastVisited = now /\ c.roomName = "n1"

\* C33: a DELETE /recent-chats/:userId/:roomId answered with 200 removes the
\* row of its pair and nothing else, so that no listing of the user has the
\* room any more; posting a pair that is not stored and then deleting it
\* gives back the table, and so every listing, as it was; a DELETE or PUT is
\* answered with 404 exactly when the store answers and the pair is not
\* stored, and then the table is unchanged.
C33_DeleteRemovesEntry ==
    [][/\ \A e \in emitted' :
             (e.ev = "DELETE /recent-chats" /\ e.status = "200")
             => /\ RecentChatRows(recent_chats, e.userId, e.roomId) # {}
                /\ recent_chats'
                     = recent_chats \ RecentChatRows(recent_chats, e.userId, e.roomId)
                /\ \A l \in getRecentChats(recent_chats', e.userId) :
                      \A c \in l : c.roomId # e.roomId
       /\ \A e \in emitted' :
             (e.ev \in {"DELETE /recent-chats", "PUT /recent-chats"} /\ e.status = "404")
             => /\ RecentChatRows(recent_chats, e.userId, e.roomId) = {}
                /\ recent_chats' = recent_chats
       /\ \A u \in {"u1", "u2"}, r \in RoomIds :
             RecentChatRows(recent_chats, u, r) = {}
             => /\ DeleteRecentChatRoute(u, r, TRUE)
                   => \A e \in emitted' : e.status = "404"
                /\ PutRecentChat(u, r, 2, FALSE, TRUE)
                   => \A e \in emitted' : e.status = "404"
                /\ \A n \in {"n1", "Room " \o r} :
                      LET added == upsertRecentChat(recent_chats, u, r, n, now) IN
                      /\ deleteRecentChat(added, u, r).rowCount = 1
                      /\ deleteRecentChat(added, u, r).table = recent_chats
                      /\ getRecentChats(deleteRecentChat(added, u, r).table, u)
                            = getRecentChats(recent_chats, u)]_vars

\* u1 had r1 and r2 listed and u2 had r1; the DELETE of (u1, r1) has just
\* been answered with 200 and the two other rows are still stored.
C33_DeletedOneOfTwo ==
    /\ \E e \in emitted : e.ev = "DELETE /recent-chats" /\ e.status = "200"
                            /\ e.userId = "u1" /\ e.roomId = "r1"
    /\ RecentChatRows(recent_chats, "u1", "r1") = {}
    /\ RecentChatRows(recent_chats, "u1", "r2") # {}
    /\ RecentChatRows(recent_chats, "u2", "r1") # {}

\* C34: for one message no message-status-update "delivered" reaches the
\* sender's connection once a seen notification for the message has reached
\* it.
C34_NoDeliveredAfterSeen ==
    [][\A e \in emitted' :
          (e.ev = "message-status-update" /\ e.status = "delivered" /\ e.to # {})
          => <<e.messageId, "seen">> \notin notified]_vars

\* C35: a join-room or chat-message that carries the id of user u and
\* arrives on a connection with no userId yet leaves the connection that u
\* resolves to as it is when u is on record on another, live connection.
C35_AutoRegisterKeepsRoute ==
    [][\A c \in Conns, u \in Users :
          (/\ sockUserId[c] = Null
           /\ activeUsers[u] \notin {NoSocket, c}
           /\ connState[activeUsers[u]] = "connected"
           /\ \/ JoinRoom(c, "r1", TRUE, u)
              \/ ChatMessage(c, "r1", u, 0))
          => getSocketByUserId(u)' = getSocketByUserId(u)]_vars

\* C36: the two registry maps are inverses of each other: user u is on
\* record on socket s exactly when socket s is on record for user u.
C36_RegistryMapsInverse ==
    \A u \in Users, s \in Conns :
        activeUsers[u] = s <=> userSockets[s] = u

C38_JoinFillsOneSlot ==
    [][/\ \A e \in emitted' :
             (e.ev = "POST /c/:roomId/join" /\ e.status = "200")
             => e.userId \in Slots(couple_rooms'[e.roomId])
       /\ \A u \in Users :
             users'[u].current_room_id \in DOMAIN couple_rooms'
             => u \in Slots(couple_rooms'[users'[u].current_room_id])
       /\ \A r \in DOMAIN couple_rooms :
             couple_rooms[r].user2_id # Null
             => couple_rooms'[r].user2_id = couple_rooms[r].user2_id
       /\ \A e \in emitted' :
             (e.ev = "POST /c/:roomId/join" /\ e.status = "400")
             => UNCHANGED <<couple_rooms, users>>]_vars

\* C39: when leaveRoom has completed for a user whose current room was R,
\* the user is in neither slot of R and the access guard denies the user for
\* R, also when the user was the only member and R has been deactivated.
C39_LeaverLosesAccess ==
    [][\A e \in emitted' :
          (/\ e.ev = "POST /u/:userId/leave-room" /\ e.status = "200"
           /\ e.roomId \in DOMAIN couple_rooms')
          => /\ e.userId \notin Slots(couple_rooms'[e.roomId])
             /\ ~validateUserRoomAccess(e.userId, e.roomId, TRUE)']_vars

\* The position of a file in the list.
IndexOf(name) == CHOOSE i \in 1..Len(migrationFiles) : migrationFiles[i] = name

\* C40: across starts the statements of a migration run at most once and in
\* list order: a file's statements run only when every file listed before it
\* is on record and the file itself is not; a file on record is skipped; a
\* failure records nothing and ends the run, and the next run begins with the
\* first file that is not on record.
C40_MigrationsOnceInOrder ==
    [][/\ \A i, j \in 1..Len(applied') : applied'[i] = applied'[j] => i = j
       /\ applied' # applied
          => /\ migrationRun.phase = "body"
             /\ migrationFiles[migrationRun.at] \notin migrations
             /\ \A k \in 1..(migrationRun.at - 1) : migrationFiles[k] \in migrations
       /\ (migrationRun.phase = "check" /\ migrationFiles[migrationRun.at] \in migrations)
          => UNCHANGED <<migrations, applied>>
       /\ migrations' # migrations
          => /\ migrationRun.phase = "record"
             /\ migrations' = migrations \cup {migrationFiles[migrationRun.at]}
             /\ applied[Len(applied)] = migrationFiles[migrationRun.at]
       /\ (migrationRun.phase = "body" /\ applied' = applied)
          => migrationRun' = Idle /\ UNCHANGED migrations
       /\ \A name \in migrations' : \A k \in 1..IndexOf(name) : migrationFiles[k] \in migrations']_vars

====
